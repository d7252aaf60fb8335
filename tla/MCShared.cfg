\* Three clients share a server thread with two slots, and ask again; a fourth is on
\* the other host, so that the servers ask each other
CONSTANTS
  numProcs = 10
  clientThreadsPerHost = 3
  serverThreadsPerHost = 2
  coresForHPThreads = 1
  IntSizeBits = 2
  NumBits = 2
  serverNetLoad <- LoadTwo
  NumWarmupSamples = 1
  MallocContents <- ZeroPages
  Signalled <- NoClients
  MaxHPReqs <- FourAndOne
  MaxLPReqs <- None
SPECIFICATION Spec
INVARIANTS AcksFromTarget OneTokenPerClient RepliesAccounted AbortOnlyWhenFull
