\* Any number of clients, up to one more than there are slots, over three words
\* with padding in the last
CONSTANTS
  IntSizeBits = 3
  NumBits = 8
  MaxLoad = 9
SPECIFICATION Spec
INVARIANTS ReturnsLeastOne ScanComputesClosedForm InvalidIffFull
CHECK_DEADLOCK FALSE
