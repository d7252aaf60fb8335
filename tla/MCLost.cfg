\* Two clients at a thread whose vector has words of one bit
CONSTANTS
  numProcs = 8
  clientThreadsPerHost = 2
  serverThreadsPerHost = 2
  coresForHPThreads = 1
  IntSizeBits = 1
  NumBits = 3
  serverNetLoad <- LoadOne
  NumWarmupSamples = 1
  MallocContents <- ZeroPages
  Signalled <- NoClients
  MaxHPReqs <- FirstTwo
  MaxLPReqs <- None
SPECIFICATION FairSpec
PROPERTIES EveryRequestAnswered
