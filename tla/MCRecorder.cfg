\* Two samplers, so that they compete for the mutex and overtake each other
CONSTANTS
  INT64_MAX = 3
  Writers = {w1, w2, w3}
  Samplers = {r1, r2}
  Nobody = Nobody
SPECIFICATION FairSpec
INVARIANTS TypeOK SampleQuiescent FlipExclusive
PROPERTIES FlipTerminates
