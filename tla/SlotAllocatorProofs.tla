-------------------------- MODULE SlotAllocatorProofs --------------------------
(***************************************************************************)
(* The word by word loop of getFirstOne, and the allocator of slots built  *)
(* on it, for every word size and every length of the vector.              *)
(***************************************************************************)
EXTENDS SlotAllocator, BitVectorProofs

\* One turn of the loop of getFirstOne adds the trailing zeros of its word
LEMMA ScanWordCounts ==
  ASSUME NEW k \in 0 .. NumInts - 1
  PROVE  LET Z  == TrailingZeros(vector)
             tz == IF Word(k) = {} THEN IntSizeBits ELSE ctz(Word(k))
         IN  /\ tz \in 0 .. IntSizeBits
             /\ Cardinality(Z \intersect Below(k + 1)) = Cardinality(Z \intersect Below(k)) + tz
<1> DEFINE W  == IntSizeBits
           Z  == TrailingZeros(vector)
           tz == IF Word(k) = {} THEN W ELSE ctz(Word(k))
           D  == k * W .. k * W + tz - 1
<1>0. W \in Nat \ {0} /\ k \in Nat /\ NumInts \in Nat
  BY BitVectorAssumption, VectorCoversSlots
<1>1. k * W \in Nat /\ (k + 1) * W = k * W + W
  BY <1>0
<1>2. (k + 1) * W <= NumInts * W
  <2>1. PICK d \in Nat : NumInts = k + 1 + d
    BY <1>0
  <2>2. NumInts * W = (k + 1) * W + d * W /\ d * W \in Nat
    BY <1>0, <2>1
  <2> QED BY <1>0, <1>1, <2>2
<1>3. /\ tz \in 0 .. W
      /\ \A n \in 0 .. W - 1 : n < tz => n \notin Word(k)
      /\ tz < W => tz \in Word(k)
  <2>1. CASE Word(k) = {}
    BY <1>0, <2>1
  <2>2. CASE Word(k) # {}
    <3>1. Word(k) \subseteq 0 .. W - 1
      BY DEF Word
    <3>2. \E n \in Word(k) : \A m \in Word(k) : n <= m
      <4>1. Word(k) \subseteq Nat
        BY <1>0, <3>1
      <4> QED BY <2>2, <4>1, LeastNatural
    <3>3. ctz(Word(k)) \in Word(k) /\ \A m \in Word(k) : ctz(Word(k)) <= m
      BY <3>2 DEF ctz
    <3> QED BY <1>0, <2>2, <3>1, <3>3
  <2> QED BY <2>1, <2>2
<1>4. ASSUME NEW a \in Nat, k * W <= a, a < k * W + W
      PROVE  /\ a \in Positions /\ a \div W = k
             /\ a \in vector <=> a - k * W \in Word(k)
  <2>1. a \in Positions
    BY <1>0, <1>1, <1>2, <1>4 DEF Positions
  <2>2. a \div W = k
    BY <1>0, <1>1, <1>4, WordOfPosition
  <2>3. a - k * W \in 0 .. W - 1 /\ k * W + (a - k * W) = a
    BY <1>0, <1>1, <1>4
  <2> QED BY <2>1, <2>2, <2>3 DEF Word, testBit
<1> HIDE DEF tz
<1>5. ASSUME NEW b \in D PROVE b \in Z \intersect Below(k + 1)
  <2>1. b \in Nat /\ k * W <= b /\ b < k * W + tz /\ b < k * W + W
    BY <1>0, <1>1, <1>3
  <2>2. b \in Positions /\ b \div W = k
    BY <1>4, <2>1
  <2>3. ASSUME NEW a \in Positions, a \div W = k, a <= b PROVE a \notin vector
    <3>1. a \in Nat /\ k * W <= a
      BY <1>0, <1>1, <2>3, WordOfPosition DEF Positions
    <3>2. a - k * W \in 0 .. W - 1 /\ a - k * W < tz
      BY <1>0, <1>1, <1>3, <2>1, <2>3, <3>1
    <3>3. a - k * W \notin Word(k)
      BY <1>3, <3>2
    <3>4. a < k * W + W
      BY <1>0, <1>1, <3>1, <3>2
    <3> QED BY <1>4, <3>1, <3>3, <3>4
  <2>4. b \in Z
    BY <2>2, <2>3 DEF TrailingZeros, testBit
  <2>5. b \in Below(k + 1)
    BY <1>0, <1>1, <2>1 DEF Below
  <2> QED BY <2>4, <2>5
<1>6. ASSUME NEW b \in Z \intersect Below(k + 1), b \notin Below(k) PROVE b \in D
  <2>1. b \in Nat /\ k * W <= b /\ b < k * W + W
    BY <1>0, <1>1, <1>6 DEF Below
  <2> SUFFICES ASSUME k * W + tz <= b PROVE FALSE
    BY <1>0, <1>1, <1>3, <2>1
  <2>2. tz \in Word(k) /\ tz < W
    BY <1>0, <1>1, <1>3, <2>1
  <2> DEFINE a == k * W + tz
  <2>3. a \in Nat /\ k * W <= a /\ a < k * W + W /\ a - k * W = tz
    BY <1>0, <1>1, <1>3, <2>2
  <2>4. a \in Positions /\ a \div W = k /\ a \in vector
    BY <1>4, <2>2, <2>3
  <2>5. b \div W = k
    BY <1>4, <2>1
  <2> QED BY <2>4, <2>5 DEF TrailingZeros, testBit
<1>7. Below(k) \subseteq Below(k + 1) /\ Below(k) \intersect D = {}
  BY <1>0, <1>1, <1>3 DEF Below
<1>8. Z \intersect Below(k + 1) = (Z \intersect Below(k)) \union D
  BY <1>5, <1>6, <1>7
<1>9. IsFiniteSet(D) /\ Cardinality(D) = tz
  BY <1>0, <1>1, <1>3, FS_Interval
<1>10. /\ IsFiniteSet(Z \intersect Below(k)) /\ Cardinality(Z \intersect Below(k)) \in Nat
       /\ (Z \intersect Below(k)) \intersect D = {}
  <2>1. Z \intersect Below(k) \subseteq Positions
    BY DEF TrailingZeros
  <2> QED BY <1>7, <2>1, FiniteVector, FS_Subset, FS_CardinalityType
<1>11. Cardinality((Z \intersect Below(k)) \union D) = Cardinality(Z \intersect Below(k)) + tz
  <2> HIDE DEF D, Z
  <2>1. Cardinality((Z \intersect Below(k)) \intersect D) = 0
    BY <1>10, FS_EmptySet
  <2>2. tz \in Nat
    BY <1>0, <1>3
  <2>3. Cardinality((Z \intersect Below(k)) \union D)
          = Cardinality(Z \intersect Below(k)) + Cardinality(D)
            - Cardinality((Z \intersect Below(k)) \intersect D)
    BY <1>9, <1>10, FS_Union
  <2> QED BY <1>9, <1>10, <2>1, <2>2, <2>3
<1> QED BY <1>3, <1>8, <1>11 DEF tz

(***************************************************************************)
(* The loop computes the closed form                                       *)
(***************************************************************************)

ScanInv ==
  /\ TypeOK
  /\ Padded(vector)
  /\ pc = "scan" => index = Cardinality(TrailingZeros(vector) \intersect Below(i))
  /\ pc \in {"claim", "aborted"} => index = getFirstOne(vector)

LEMMA ScanInvInit == Init => ScanInv
<1> SUFFICES ASSUME Init PROVE ScanInv
  OBVIOUS
<1>1. NumInts \in Nat /\ NumInts * IntSizeBits \in Nat
  BY VectorCoversSlots, BitVectorAssumption
<1>2. TypeOK
  BY <1>1 DEF Init, TypeOK, createBitVector
<1>3. Padded(vector)
  BY DEF Init, Padded, createBitVector
<1> QED BY <1>2, <1>3 DEF Init, ScanInv

\* What the sum over the first words can be
LEMMA PartialSum ==
  ASSUME NEW k \in 0 .. NumInts
  PROVE  /\ IsFiniteSet(TrailingZeros(vector) \intersect Below(k))
         /\ Cardinality(TrailingZeros(vector) \intersect Below(k)) \in 0 .. NumInts * IntSizeBits
         /\ Cardinality(TrailingZeros(vector) \intersect Below(k))
              <= Cardinality(TrailingZeros(vector))
<1> DEFINE Z == TrailingZeros(vector)
           B == Z \intersect Below(k)
<1>1. NumInts * IntSizeBits \in Nat
  BY VectorCoversSlots, BitVectorAssumption
<1>2. IsFiniteSet(Positions) /\ Cardinality(Positions) = NumInts * IntSizeBits
  <2>1. \A n \in Nat : IsFiniteSet(0 .. n - 1) /\ Cardinality(0 .. n - 1) = n
    BY FS_Interval
  <2> QED BY <1>1, <2>1 DEF Positions
<1>3. B \subseteq Positions /\ B \subseteq Z
  BY DEF TrailingZeros
<1>4. IsFiniteSet(Z)
  BY FiniteVector
<1> HIDE DEF Z, B
<1>5. IsFiniteSet(B) /\ Cardinality(B) \in Nat /\ Cardinality(B) <= Cardinality(Positions)
  BY <1>2, <1>3, FS_Subset, FS_CardinalityType
<1>6. Cardinality(B) <= Cardinality(Z)
  BY <1>3, <1>4, FS_Subset
<1> QED BY <1>1, <1>2, <1>5, <1>6 DEF B, Z

LEMMA ScanInvNext == ScanInv /\ [Next]_vars => ScanInv'
<1> SUFFICES ASSUME ScanInv, [Next]_vars PROVE ScanInv'
  OBVIOUS
<1>a. load' = load
  BY DEF Next, vars
<1> USE <1>a DEF ScanInv
<1>0. /\ NumInts \in Nat /\ IntSizeBits \in Nat \ {0} /\ NumBits \in Nat \ {0}
      /\ NumInts * IntSizeBits \in Nat /\ NumBits <= NumInts * IntSizeBits
      /\ Slots \subseteq Positions /\ Positions = Below(NumInts)
  BY VectorCoversSlots, BitVectorAssumption
<1>1. CASE Request
  <2>1. Below(0) = {}
    BY <1>0 DEF Below
  <2>2. Cardinality(TrailingZeros(vector) \intersect Below(0)) = 0
    BY <2>1, FS_EmptySet
  <2> QED BY <1>0, <1>1, <2>2 DEF Request, TypeOK, Padded
<1>2. CASE ScanWord
  <2>1. i \in 0 .. NumInts - 1 /\ i + 1 \in 0 .. NumInts
    BY <1>0, <1>2 DEF ScanWord, TypeOK
  <2>2. index' = Cardinality(TrailingZeros(vector) \intersect Below(i + 1))
    BY <1>2, <2>1, ScanWordCounts DEF ScanWord
  <2>3. index' \in 0 .. NumInts * IntSizeBits
    BY <2>1, <2>2, PartialSum
  <2>4. TypeOK'
    BY <1>2, <2>1, <2>3 DEF ScanWord, TypeOK
  <2> QED BY <1>2, <2>2, <2>4 DEF ScanWord, Padded
<1>3. CASE ReturnIndex
  <2>1. TrailingZeros(vector) \intersect Below(NumInts) = TrailingZeros(vector)
    BY <1>0 DEF TrailingZeros
  <2>2. index = Cardinality(TrailingZeros(vector))
    BY <1>3, <2>1 DEF ReturnIndex
  <2>3. index' = getFirstOne(vector)
    BY <1>3, <2>2 DEF ReturnIndex, getFirstOne
  <2>4. TypeOK'
    BY <1>0, <1>3 DEF ReturnIndex, TypeOK
  <2> QED BY <1>3, <2>3, <2>4 DEF ReturnIndex, Padded
<1>4. CASE Claim
  <2>1. index \in Slots
    BY <1>0, <1>4, FiniteVector DEF Claim, getFirstOne, Slots, INVALID_INDEX
  <2>2. Padded(vector')
    BY <1>4, <2>1 DEF Claim, Padded, clearBit
  <2>3. TypeOK'
    BY <1>0, <1>4, <2>2 DEF Claim, TypeOK, Padded
  <2> QED BY <1>4, <2>2, <2>3 DEF Claim
<1>5. CASE Abort
  BY <1>5 DEF Abort, TypeOK, Padded
<1>6. CASE Release
  <2>1. PICK p \in Outstanding : vector' = setBit(vector, p)
    BY <1>6 DEF Release
  <2>2. Padded(vector')
    BY <1>0, <2>1 DEF Outstanding, Padded, setBit
  <2> QED BY <1>6, <2>2 DEF Release, TypeOK, Padded
<1>7. CASE UNCHANGED vars
  BY <1>7 DEF vars, TypeOK, Padded
<1> QED BY <1>1, <1>2, <1>3, <1>4, <1>5, <1>6, <1>7 DEF Next

LEMMA ScanInvariant == Spec => []ScanInv
BY ScanInvInit, ScanInvNext, PTL DEF Spec

\* The word by word loop of getFirstOne, over any number of words of any size,
\* returns the closed form the other modules use (src/common.c:71-82).
THEOREM ScanCorrect == Spec => []ScanComputesClosedForm
<1>1. ScanInv => ScanComputesClosedForm
  BY PartialSum DEF ScanInv, TypeOK, ScanComputesClosedForm
<1> QED BY <1>1, ScanInvariant, PTL

\* Whatever number of requests is outstanding, the allocator reports a full pool
\* when, and only when, it is full (src/common.c:69 and 81).
THEOREM FullPoolReported == Spec => []InvalidIffFull
<1>1. ScanInv => InvalidIffFull
  BY GetFirstOneInvalidIffFull DEF ScanInv, InvalidIffFull
<1> QED BY <1>1, ScanInvariant, PTL

(***************************************************************************)
(* At most as many clients as a word has bits                              *)
(***************************************************************************)

\* Every slot in use lies in the first word, and during a scan one is to spare
FirstWordInv ==
  /\ ScanInv
  /\ load <= IntSizeBits => /\ Outstanding \subseteq 0 .. IntSizeBits - 1
                            /\ pc \in {"scan", "claim"} => Cardinality(Outstanding) < load

LEMMA FirstWordInvNext == FirstWordInv /\ [Next]_vars => FirstWordInv'
<1> SUFFICES ASSUME FirstWordInv, [Next]_vars, load <= IntSizeBits PROVE FirstWordInv'
  BY ScanInvNext DEF FirstWordInv, Next, vars
<1>0. /\ IntSizeBits \in Nat \ {0} /\ NumBits \in Nat \ {0} /\ load \in Nat
      /\ load' = load /\ ScanInv /\ ScanInv'
  BY BitVectorAssumption, MaxLoadAssumption, ScanInvNext DEF FirstWordInv, ScanInv, TypeOK, Next, vars
<1>1. CASE Claim
  <2>1. /\ vector' = clearBit(vector, index)
        /\ index = getFirstOne(vector) /\ index # INVALID_INDEX /\ Padded(vector)
        /\ Outstanding \subseteq 0 .. IntSizeBits - 1
        /\ Cardinality(Outstanding) < IntSizeBits
    <3>1. IsFiniteSet(Outstanding) /\ Cardinality(Outstanding) \in Nat
      BY FiniteVector, FS_Subset, FS_CardinalityType DEF Outstanding
    <3> QED BY <1>0, <1>1, <3>1 DEF Claim, FirstWordInv, ScanInv
  <2>2. index = LeastOne(vector)
    BY <2>1, GetFirstOneIsLeast DEF Outstanding
  <2>3. vector \intersect Slots # {}
    BY <2>1, <2>2 DEF LeastOne
  <2>4. index \in vector \intersect Slots /\ \A q \in vector \intersect Slots : index <= q
    <3>1. vector \intersect Slots \subseteq Nat
      BY <1>0 DEF Slots
    <3>2. \E p \in vector \intersect Slots : \A q \in vector \intersect Slots : p <= q
      BY <2>3, <3>1, LeastNatural
    <3> QED BY <2>2, <2>3, <3>2 DEF LeastOne
  <2>5. index < IntSizeBits
    <3> SUFFICES ASSUME IntSizeBits <= index PROVE FALSE
      BY <1>0, <2>4 DEF Slots
    <3>1. 0 .. IntSizeBits - 1 \subseteq Outstanding
      BY <1>0, <2>4 DEF Slots, Outstanding
    <3>2. Cardinality(0 .. IntSizeBits - 1) = IntSizeBits
      BY <1>0, FS_Interval
    <3>3. IsFiniteSet(Outstanding) /\ Cardinality(Outstanding) \in Nat
      BY FiniteVector, FS_Subset, FS_CardinalityType DEF Outstanding
    <3>4. IntSizeBits <= Cardinality(Outstanding)
      <4>1. \A S \in SUBSET Outstanding : Cardinality(S) <= Cardinality(Outstanding)
        BY <3>3, FS_Subset
      <4> QED BY <3>1, <3>2, <4>1
    <3> QED BY <1>0, <2>1, <3>3, <3>4
  <2>6. Outstanding' \subseteq 0 .. IntSizeBits - 1
    BY <1>0, <2>1, <2>4, <2>5 DEF Outstanding, clearBit, Slots
  <2> QED BY <1>0, <1>1, <2>6 DEF Claim, FirstWordInv
<1>2. CASE Release
  BY <1>0, <1>2 DEF Release, FirstWordInv, Outstanding, setBit
<1>3. CASE Request \/ ScanWord \/ ReturnIndex \/ Abort \/ UNCHANGED vars
  BY <1>0, <1>3 DEF Request, ScanWord, ReturnIndex, Abort, vars, FirstWordInv, Outstanding
<1> QED BY <1>1, <1>2, <1>3 DEF Next

\* With no more clients than a word has bits, every scan returns the least free
\* slot, as its comment says (src/common.c:67-70), so no continuation is ever
\* overwritten while it is in use.
THEOREM ReturnsLeastWithinOneWord == Spec => []ReturnsLeastOne
<1>1. Init => FirstWordInv
  <2> SUFFICES ASSUME Init PROVE FirstWordInv
    OBVIOUS
  <2>1. Outstanding = {}
    BY VectorCoversSlots DEF Init, createBitVector, Outstanding
  <2> QED BY <2>1, ScanInvInit DEF Init, FirstWordInv
<1>2. FirstWordInv /\ [Next]_vars => FirstWordInv'
  BY FirstWordInvNext
<1>3. FirstWordInv => ReturnsLeastOne
  BY GetFirstOneIsLeast DEF FirstWordInv, ScanInv, ReturnsLeastOne, Outstanding
<1> QED BY <1>1, <1>2, <1>3, PTL DEF Spec
==============================================================================
