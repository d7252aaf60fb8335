------------------------------ MODULE ConfigMaps ------------------------------
(***************************************************************************)
(* How every process builds the maps of the job when it starts: the loop   *)
(* of configMaps (src/common.c:105-160) over the ranks, one turn a step,   *)
(* writing into the arrays that runSim allocated.  The arguments of the    *)
(* program and the size of the job are chosen at the start, among those    *)
(* the asserts of main accept.                                             *)
(***************************************************************************)
EXTENDS Integers, Sequences, FiniteSets

CONSTANTS MaxHosts, MaxClientThreads, MaxServerThreads   \* bounds of the arguments

ASSUME BoundsAssumption == {MaxHosts, MaxClientThreads, MaxServerThreads} \subseteq Nat \ {0}

VARIABLES
  numProcs, clientThreadsPerHost, serverThreadsPerHost, coresForHPThreads,  \* the arguments
  rank, hostID,                    \* the locals of the loop
  rankMap, clientMap, serverMap    \* the arrays

args == <<numProcs, clientThreadsPerHost, serverThreadsPerHost, coresForHPThreads>>
vars == <<args, rank, hostID, rankMap, clientMap, serverMap>>

\* The closed forms, for the arguments of this job
T == INSTANCE Topology

INVALID_INDEX == -1

\* The entry malloc leaves, before the loop writes it; entityEntry and
\* serverEntry have been given their empty rank lists
UnsetRank   == [hostID |-> INVALID_INDEX, isClient |-> FALSE, clientID |-> INVALID_INDEX,
                isServer |-> FALSE, serverID |-> INVALID_INDEX]
EmptyClient == [hostID |-> INVALID_INDEX, ranks |-> <<>>]
EmptyServer == [hostID |-> INVALID_INDEX, HPranks |-> <<>>, LPranks |-> <<>>]

numClients == T!numHosts * clientThreadsPerHost

Init ==
  /\ clientThreadsPerHost \in 1 .. MaxClientThreads
  /\ serverThreadsPerHost \in 1 .. MaxServerThreads
  /\ coresForHPThreads \in 0 .. serverThreadsPerHost - 1
  /\ \E h \in 1 .. MaxHosts : numProcs = h * (clientThreadsPerHost + serverThreadsPerHost)
  /\ rank = 0 /\ hostID = 0
  /\ rankMap = [r \in T!Ranks |-> UnsetRank]
  /\ clientMap = [c \in 0 .. numClients - 1 |-> EmptyClient]
  /\ serverMap = [h \in T!Servers |-> EmptyServer]

(***************************************************************************)
(* One turn of the loop                                                    *)
(***************************************************************************)

hostOffset == rank % T!procsPerHost

thisHost == IF hostOffset = 0 /\ rank >= T!procsPerHost THEN hostID + 1 ELSE hostID

\* Mutant of clientID: hosts counted as if each had one client
clientIDUnscaled == thisHost + (hostOffset % clientThreadsPerHost)

clientID   == thisHost * clientThreadsPerHost + (hostOffset % clientThreadsPerHost)
serverID   == thisHost
isClient   == hostOffset < clientThreadsPerHost
isServer   == ~isClient
\* Mutant of isHPServer: one thread too many
isHPServerPlusOne == isServer /\ hostOffset <= clientThreadsPerHost + coresForHPThreads

isHPServer == isServer /\ hostOffset < clientThreadsPerHost + coresForHPThreads
isLPServer == isServer /\ ~isHPServer

SetRankMap ==
  rankMap' = [rankMap EXCEPT ![rank] =
    [hostID |-> thisHost,
     isClient |-> isClient, clientID |-> IF isClient THEN clientID ELSE INVALID_INDEX,
     isServer |-> isServer, serverID |-> IF isServer THEN serverID ELSE INVALID_INDEX]]

SetClientMap ==
  IF isClient
  THEN clientMap' = [clientMap EXCEPT ![clientID].hostID = thisHost,
                                      ![clientID].ranks = Append(@, rank)]
  ELSE UNCHANGED clientMap

SetServerMap ==
  \/ /\ isHPServer
     /\ serverMap' = [serverMap EXCEPT ![serverID].hostID = thisHost,
                                       ![serverID].HPranks = Append(@, rank)]
  \/ /\ isLPServer
     /\ serverMap' = [serverMap EXCEPT ![serverID].hostID = thisHost,
                                       ![serverID].LPranks = Append(@, rank)]
  \/ /\ isClient
     /\ UNCHANGED serverMap

ConfigureRank ==
  /\ rank < numProcs
  /\ hostID' = thisHost
  /\ rank' = rank + 1
  /\ SetRankMap /\ SetClientMap /\ SetServerMap
  /\ UNCHANGED args

Next == ConfigureRank

Spec == Init /\ [][Next]_vars

(***************************************************************************)
(* Properties                                                              *)
(***************************************************************************)

\* Every write of a turn lands in the arrays runSim allocated for it: one entry
\* per client and per server, one rank per client, coresForHPThreads and
\* serverThreadsPerHost - coresForHPThreads ranks per server
\* (src/mpi_bcp_qos_sim.c:58-68, src/common.c:162-176).
WritesInBounds ==
  rank < numProcs =>
    /\ isClient => clientID \in DOMAIN clientMap /\ Len(clientMap[clientID].ranks) < 1
    /\ isServer => serverID \in DOMAIN serverMap
    /\ isHPServer => Len(serverMap[serverID].HPranks) < coresForHPThreads
    /\ isLPServer => Len(serverMap[serverID].LPranks) < serverThreadsPerHost - coresForHPThreads

RangeOf(q) == {q[n] : n \in DOMAIN q}

\* The maps the loop has built so far are the closed forms of Topology, which the
\* other modules use in their place; every host is complete before the next.
MapsMatchTopology ==
  /\ \A r \in 0 .. rank - 1 :
       rankMap[r] = [hostID |-> T!HostOf(r),
                     isClient |-> T!IsClient(r),
                     clientID |-> IF T!IsClient(r) THEN T!ClientID(r) ELSE INVALID_INDEX,
                     isServer |-> T!IsServer(r),
                     serverID |-> IF T!IsServer(r) THEN T!HostOf(r) ELSE INVALID_INDEX]
  /\ \A h \in T!Servers :
       /\ RangeOf(serverMap[h].HPranks) = T!HPRanks(h) \intersect (0 .. rank - 1)
       /\ RangeOf(serverMap[h].LPranks) = T!LPRanks(h) \intersect (0 .. rank - 1)
       /\ serverMap[h].HPranks \o serverMap[h].LPranks # <<>> => serverMap[h].hostID = h
  /\ \A r \in T!Clients \intersect (0 .. rank - 1) :
       clientMap[T!ClientID(r)] = [hostID |-> T!HostOf(r), ranks |-> <<r>>]
==============================================================================
