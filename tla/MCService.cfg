\* Two clients of the first host share a thread with network load, a client of the second
\* has one without
CONSTANTS
  numProcs = 8
  clientThreadsPerHost = 2
  serverThreadsPerHost = 2
  coresForHPThreads = 1
  IntSizeBits = 2
  NumBits = 3
  serverNetLoad <- LoadElsewhere
  NumWarmupSamples = 1
  MallocContents <- ZeroPages
  Signalled <- NoClients
  MaxHPReqs <- TwoAndOne
  MaxLPReqs <- None
SPECIFICATION FairSpec
PROPERTIES EveryRequestAnswered ImplementsService
