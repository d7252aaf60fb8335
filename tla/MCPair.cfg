CONSTANTS
  numProcs = 6
  clientThreadsPerHost = 1
  serverThreadsPerHost = 2
  coresForHPThreads = 1
  IntSizeBits = 2
  NumBits = 2
  serverNetLoad <- LoadTwo
  NumWarmupSamples = 1
  MallocContents <- AnyContents
  Signalled <- AllClients
  MaxHPReqs <- TwoEach
  MaxLPReqs <- FirstOne
SPECIFICATION FairSpec
INVARIANTS TypeOK RequestsCounted SentWhereHeard LogAfterRequests
PROPERTIES EveryLogWritten
