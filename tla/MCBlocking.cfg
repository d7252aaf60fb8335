\* Two hosts; MPI has room for the server requests of one high priority request, and no
\* more; the low priority requests are enough for their threads to wait for each other
CONSTANTS
  numProcs = 6
  clientThreadsPerHost = 1
  serverThreadsPerHost = 2
  coresForHPThreads = 1
  serverNetLoad = 1
  Capacity = 1
  HPReqs = 2
  LPReqs = 2
SPECIFICATION Spec
INVARIANTS NoCircularWait
PROPERTIES EveryWaitEnds
CHECK_DEADLOCK FALSE
