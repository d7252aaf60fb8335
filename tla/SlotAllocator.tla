---------------------------- MODULE SlotAllocator ----------------------------
(***************************************************************************)
(* One server thread using its bitVector as the allocator of continuation  *)
(* slots (src/server.c:137-143 and 215): getFirstOne runs word by word,    *)
(* clearBit takes the slot it returned, setBit gives a slot back.  The     *)
(* thread is the only user of its vector, so nothing happens inside a      *)
(* scan.  load is the number of requests that may be outstanding together: *)
(* the clients that target this server thread, a number that does not      *)
(* change, each of which waits for its reply before its next request.      *)
(***************************************************************************)
EXTENDS BitVector

CONSTANT MaxLoad
ASSUME MaxLoadAssumption == MaxLoad \in Nat

VARIABLES vector,   \* the 1 bits of continuationVector
          pc,       \* "idle", "scan", "claim", or "aborted" after a send with a negative tag
          i,        \* getFirstOne: the next word
          index,    \* getFirstOne: the sum so far, then the value returned
          load      \* the clients of this thread

vars == <<vector, pc, i, index, load>>

Outstanding == Slots \ vector

TypeOK == /\ vector \in SUBSET Positions
          /\ pc \in {"idle", "scan", "claim", "aborted"}
          /\ i \in 0 .. NumInts
          /\ index \in {INVALID_INDEX} \union (0 .. NumInts * IntSizeBits)
          /\ load \in 0 .. MaxLoad

Word(k) == {n \in 0 .. IntSizeBits - 1 : testBit(vector, k * IntSizeBits + n)}

\* Mutant of ctz: the most significant 1
ctzFromTop(word) == CHOOSE n \in word : \A m \in word : n >= m

\* __builtin_ctz of a nonzero word
ctz(word) == CHOOSE n \in word : \A m \in word : n <= m

Init == /\ vector = createBitVector /\ pc = "idle" /\ i = 0 /\ index = 0
        /\ load \in 0 .. MaxLoad

\* A request arrives: getFirstOne starts
Request == /\ pc = "idle"
           /\ Cardinality(Outstanding) < load
           /\ pc' = "scan" /\ i' = 0 /\ index' = 0
           /\ UNCHANGED vector

\* Mutant of ScanWord: a full word counts one bit too few
ScanWordShort == /\ pc = "scan"
                 /\ i < NumInts
                 /\ index' = index + (IF Word(i) = {} THEN IntSizeBits - 1 ELSE ctz(Word(i)))
                 /\ i' = i + 1
                 /\ UNCHANGED <<vector, pc>>

\* One turn of the loop of getFirstOne
ScanWord == /\ pc = "scan"
            /\ i < NumInts
            /\ index' = index + (IF Word(i) = {} THEN IntSizeBits ELSE ctz(Word(i)))
            /\ i' = i + 1
            /\ UNCHANGED <<vector, pc>>

\* Mutant of ReturnIndex: <= for < against the length
ReturnIndexAtLength == /\ pc = "scan"
                       /\ i = NumInts
                       /\ index' = IF index <= NumBits THEN index ELSE INVALID_INDEX
                       /\ pc' = "claim"
                       /\ UNCHANGED <<vector, i>>

ReturnIndex == /\ pc = "scan"
               /\ i = NumInts
               /\ index' = IF index < NumBits THEN index ELSE INVALID_INDEX
               /\ pc' = "claim"
               /\ UNCHANGED <<vector, i>>

Claim == /\ pc = "claim"
         /\ index # INVALID_INDEX
         /\ vector' = clearBit(vector, index)
         /\ pc' = "idle" /\ i' = 0 /\ index' = 0

\* The server sends with tag INVALID_INDEX before it reaches clearBit: a
\* negative tag is an error MPI answers by aborting the job.
Abort == /\ pc = "claim"
         /\ index = INVALID_INDEX
         /\ pc' = "aborted"
         /\ UNCHANGED <<vector, i, index>>

\* The last reply of an outstanding request came back
Release == /\ pc = "idle"
           /\ \E p \in Outstanding : vector' = setBit(vector, p)
           /\ UNCHANGED <<pc, i, index>>

Next == /\ Request \/ ScanWord \/ ReturnIndex \/ Claim \/ Abort \/ Release
        /\ UNCHANGED load

Spec == Init /\ [][Next]_vars

(***************************************************************************)
(* Properties                                                              *)
(***************************************************************************)

\* The value the loop leaves is the closed form getFirstOne that the other
\* modules use, and the sum over the words never overshoots it on the way
\* (src/common.c:71-82).
ScanComputesClosedForm ==
  /\ pc \in {"claim", "aborted"} => index = getFirstOne(vector)
  /\ pc = "scan" => index <= Cardinality(TrailingZeros(vector))

\* getFirstOne returns INVALID_INDEX exactly when no slot is free, however many
\* requests are outstanding and whatever the padding of the last word
\* (src/common.c:69 and 81): the job never dies of a vector that is not full.
InvalidIffFull == pc = "claim" => (index = INVALID_INDEX <=> vector \intersect Slots = {})

\* getFirstOne returns the least significant 1, or INVALID_INDEX when the vector
\* is all 0's (the comment at src/common.c:67-70), as long as the thread has no
\* more clients than a word has bits.  With more it does not, see QosSim.
ReturnsLeastOne == pc = "claim" /\ load <= IntSizeBits => index = LeastOne(vector)
==============================================================================
