\* Low priority requests only, three of each client: their threads come to wait for each
\* other, and then a client for one of them
CONSTANTS
  numProcs = 6
  clientThreadsPerHost = 1
  serverThreadsPerHost = 2
  coresForHPThreads = 1
  serverNetLoad = 2
  Capacity = 2
  HPReqs = 0
  LPReqs = 3
SPECIFICATION Spec
PROPERTIES ClientSendsReturn
CHECK_DEADLOCK FALSE
