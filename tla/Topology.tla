------------------------------- MODULE Topology -------------------------------
(***************************************************************************)
(* Which process is what: the ranks of a job are laid out host after host, *)
(* on each host first the clients, then the high priority threads of its   *)
(* server, then the low priority ones.  These are the closed forms of what *)
(* configMaps writes into rankMap, clientMap and serverMap (module         *)
(* ConfigMaps has the loop), and of what each server thread computes for   *)
(* itself when it starts.                                                  *)
(***************************************************************************)
EXTENDS Integers

CONSTANTS numProcs, clientThreadsPerHost, serverThreadsPerHost, coresForHPThreads

\* The asserts of main (src/mpi_bcp_qos_sim.c:256-259)
ASSUME ArgumentsAssumption ==
  /\ numProcs \in Nat \ {0}
  /\ clientThreadsPerHost \in Nat \ {0}
  /\ serverThreadsPerHost \in Nat \ {0}
  /\ coresForHPThreads \in 0 .. serverThreadsPerHost - 1

\* calcProcInfo
procsPerHost == clientThreadsPerHost + serverThreadsPerHost
numHosts     == numProcs \div procsPerHost

Ranks   == 0 .. numProcs - 1
Hosts   == 0 .. numHosts - 1
Servers == Hosts                \* one server per host: serverID = hostID

hostOffset(r) == r % procsPerHost
HostOf(r)     == r \div procsPerHost

IsClient(r)   == hostOffset(r) < clientThreadsPerHost
IsServer(r)   == ~IsClient(r)
IsHPServer(r) == IsServer(r) /\ hostOffset(r) < clientThreadsPerHost + coresForHPThreads
IsLPServer(r) == IsServer(r) /\ ~IsHPServer(r)

ClientID(r) == HostOf(r) * clientThreadsPerHost + hostOffset(r)

Clients     == {r \in Ranks : IsClient(r)}
ServerRanks == {r \in Ranks : IsServer(r)}
HPRanks(h)  == {r \in Ranks : HostOf(r) = h /\ IsHPServer(r)}
LPRanks(h)  == {r \in Ranks : HostOf(r) = h /\ IsLPServer(r)}

\* Mutant of threadID: counts the clients of the host as server threads
threadIDWithClients(r) == r % (serverThreadsPerHost + clientThreadsPerHost)

\* runServer derives the thread's place on its host, and its priority, from its
\* own rank instead of looking itself up in serverMap
threadID(r)           == (r % (serverThreadsPerHost + clientThreadsPerHost)) - clientThreadsPerHost
server_getPriority(r) == threadID(r) < coresForHPThreads
==============================================================================
