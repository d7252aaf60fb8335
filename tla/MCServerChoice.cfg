\* All arguments up to 3 clients and 4 server threads on each of up to 3 hosts, and
\* every process of such a job
CONSTANTS
  MaxHosts = 3
  MaxClientThreads = 3
  MaxServerThreads = 4
  MemLoads = {0, 1}
  NetLoads = {0, 2}
  MaxHandled = 4
SPECIFICATION ChoiceSpec
INVARIANTS WritesInBounds MapsMatchTopology ReachesListener
PROPERTIES SearchEnds
