------------------------------ MODULE BitVector ------------------------------
(***************************************************************************)
(* The bit vector of src/common.c: a pool of continuation slots, one bit   *)
(* per slot, 1 = free.  A vector is the set of the positions whose bit is  *)
(* 1; it covers whole words, so it also holds the padding positions        *)
(* NumBits .. NumInts * IntSizeBits - 1 of the last word.                  *)
(***************************************************************************)
EXTENDS Integers, FiniteSets

CONSTANTS IntSizeBits,   \* INT_SIZE_BITS: the bits of one word
          NumBits        \* bitVec->len: the slots of the pool

ASSUME BitVectorAssumption == /\ IntSizeBits \in Nat \ {0}
                              /\ NumBits \in Nat \ {0}

INVALID_INDEX == -1

\* createBitVector rounds the length up to whole words
NumInts == (NumBits + IntSizeBits - 1) \div IntSizeBits

Slots     == 0 .. NumBits - 1
Positions == 0 .. NumInts * IntSizeBits - 1

createBitVector == Positions

\* Mutant of setBit: the bit next to pos
setNextBit(vec, pos) == vec \union {pos + 1}

setBit(vec, pos)   == vec \union {pos}
clearBit(vec, pos) == vec \ {pos}
testBit(vec, pos)  == pos \in vec

\* The zero bits below the first 1 of their own word: what __builtin_ctz counts
\* for a word with a 1, and all the bits of a word without one.
TrailingZeros(vec) ==
  {b \in Positions : \A a \in Positions :
      (a \div IntSizeBits = b \div IntSizeBits /\ a <= b) => ~testBit(vec, a)}

\* Mutant of getFirstOne: the last slot counts as beyond the end
getFirstOneButLast(vec) ==
  LET index == Cardinality(TrailingZeros(vec))
  IN  IF index < NumBits - 1 THEN index ELSE INVALID_INDEX

\* What the loop of getFirstOne returns: it has no break, so it adds up the
\* trailing zeros of EVERY word, the ones after the first free slot included.
getFirstOne(vec) ==
  LET index == Cardinality(TrailingZeros(vec))
  IN  IF index < NumBits THEN index ELSE INVALID_INDEX

\* What its comment promises: the position of the least significant 1.
LeastOne(vec) ==
  IF vec \intersect Slots = {} THEN INVALID_INDEX
  ELSE CHOOSE p \in vec \intersect Slots : \A q \in vec \intersect Slots : p <= q
==============================================================================
