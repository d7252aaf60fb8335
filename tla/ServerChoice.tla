----------------------------- MODULE ServerChoice -----------------------------
(***************************************************************************)
(* The random choices of one process, client or server thread: the seed it *)
(* starts from, the generator, the search for a server on another host and *)
(* the choice of one of its threads (src/client.c:262-304,                 *)
(* src/server.c:284-349, src/common.c:241-260, 300-319, 348-353).          *)
(*                                                                         *)
(* The process chooses from the maps that the loop of ConfigMaps, the      *)
(* first part of the run, has left in its memory.  The generator is exact, *)
(* with all its 30 bits.                                                   *)
(***************************************************************************)
EXTENDS ConfigMaps

CONSTANTS MemLoads, NetLoads,     \* serverMemLoad and serverNetLoad
          MaxHandled              \* bound: the requests a process sends or handles

ASSUME LoadsAssumption == MemLoads \subseteq Nat /\ NetLoads \subseteq Nat

VARIABLES serverMemLoad, serverNetLoad,
          self,                   \* the rank of this process
          pc,                     \* "maps", "ready", "serverID", "rank"
          seed,
          targetServerID, targetServerRank, comm,
          sends,                  \* requests to other servers still to send
          handled

choiceVars == <<serverMemLoad, serverNetLoad, self, pc, seed, targetServerID,
                targetServerRank, comm, sends, handled>>

(***************************************************************************)
(* The generator                                                           *)
(***************************************************************************)

BYTES_TO_WRITE == 512
Modulus        == 2^30
Multiplier     == 1575806573 % Modulus      \* 0x5dece66d
Increment      == 11
RankMultiplier == 1202107158 % Modulus
Seeds          == 0 .. Modulus - 1

\* x * y % 2^30 for 30-bit numbers, by halves, so that nothing exceeds TLC's integers
Times(x, y) ==
  LET B == 2^15
      middle == (x % B) * (y \div B) + (x \div B) * (y % B)
  IN ((x % B) * (y % B) + (middle % B) * B) % Modulus

\* Mutant of myRandom: without the increment
myRandomNoIncrement(s) == Times(Multiplier, s)

myRandom(s) == (Times(Multiplier, s) + Increment) % Modulus

\* n draws whose values only end up in the data, half of them after the other half
Draws(s, n) ==
  LET drawn[p \in (0 .. n) \X Seeds] ==
        IF p[1] = 0 THEN p[2]
        ELSE IF p[1] = 1 THEN myRandom(p[2])
        ELSE drawn[<<p[1] - (p[1] \div 2), drawn[<<p[1] \div 2, p[2]>>]>>]
  IN drawn[<<n, s>>]

\* The product overflows an int from rank 2 on; the build wraps it, and of the
\* result the generator uses the last 30 bits
InitialSeed(r) ==
  LET thread == IF T!IsClient(r) THEN r % clientThreadsPerHost ELSE T!threadID(r)
  IN (Times(RankMultiplier, r) + 1999 * thread) % Modulus

\* A unit of memory load draws an index to read at, one to write at, and the data
perform_memory_task(s) == Draws(s, serverMemLoad * (2 + BYTES_TO_WRITE))

(***************************************************************************)
(* The choices                                                             *)
(***************************************************************************)

\* The other host's thread for random value s
ChooseServerRank(s, server, k) ==
  LET ranks == IF k = "HP" THEN serverMap[server].HPranks ELSE serverMap[server].LPranks
  IN ranks[(s % Len(ranks)) + 1]

SameHost(server) == serverMap[server].hostID = rankMap[self].hostID

ChoiceInit ==
  /\ Init
  /\ serverMemLoad \in MemLoads /\ serverNetLoad \in NetLoads
  /\ self = 0 /\ pc = "maps" /\ seed = 0
  /\ targetServerID = INVALID_INDEX /\ targetServerRank = INVALID_INDEX /\ comm = "none"
  /\ sends = 0 /\ handled = 0

BuildMaps == pc = "maps" /\ Next /\ UNCHANGED choiceVars

\* The process starts.  With one host a client searches for ever, and without a
\* high priority thread the first choice of one divides by zero: not started here.
Start ==
  /\ pc = "maps" /\ rank = numProcs
  /\ T!numHosts >= 2 /\ coresForHPThreads > 0
  /\ self' \in T!Ranks
  /\ seed' = InitialSeed(self')
  /\ pc' = IF rankMap[self'].isClient THEN "serverID" ELSE "ready"
  /\ comm' = IF rankMap[self'].isServer /\ T!server_getPriority(self') THEN "HP" ELSE "LP"
  /\ UNCHANGED <<vars, serverMemLoad, serverNetLoad, targetServerID, targetServerRank,
                 sends, handled>>

\* chooseServerID, serverChooseServerID: one draw, and another while it is this host
SearchServer ==
  /\ pc = "serverID"
  /\ seed' = myRandom(seed)
  /\ LET server == seed' % T!numHosts IN
       IF SameHost(server) THEN UNCHANGED <<pc, targetServerID>>
       ELSE /\ targetServerID' = server
            /\ pc' = IF rankMap[self].isClient THEN "ready" ELSE "rank"
  /\ UNCHANGED <<vars, serverMemLoad, serverNetLoad, self, targetServerRank, comm, sends, handled>>

\* client_sendReq: a thread of the one server the client chose when it started
ClientRequest ==
  /\ pc = "ready" /\ rankMap[self].isClient /\ handled < MaxHandled
  /\ comm' \in {"HP", "LP"}
  /\ seed' = myRandom(seed)
  /\ targetServerRank' = ChooseServerRank(seed', targetServerID, comm')
  /\ handled' = handled + 1
  /\ UNCHANGED <<vars, serverMemLoad, serverNetLoad, self, pc, targetServerID, sends>>

\* server_runThread: memory load for every request, and server requests for those
\* of clients
ServerHandle ==
  /\ pc = "ready" /\ rankMap[self].isServer /\ handled < MaxHandled
  /\ seed' = perform_memory_task(seed)
  /\ \/ pc' = "ready" /\ UNCHANGED sends
     \/ serverNetLoad > 0 /\ pc' = "serverID" /\ sends' = serverNetLoad
  /\ handled' = handled + 1
  /\ UNCHANGED <<vars, serverMemLoad, serverNetLoad, self, targetServerID, targetServerRank, comm>>

\* serverCreateNetworkRequest: the thread, then the next of the requests
ServerRequest ==
  /\ pc = "rank"
  /\ seed' = myRandom(seed)
  /\ targetServerRank' = ChooseServerRank(seed', targetServerID, comm)
  /\ sends' = sends - 1
  /\ pc' = IF sends' = 0 THEN "ready" ELSE "serverID"
  /\ UNCHANGED <<vars, serverMemLoad, serverNetLoad, self, targetServerID, comm, handled>>

\* The bound is reached, or the arguments allow no simulation
Stop ==
  /\ \/ pc = "ready" /\ handled = MaxHandled
     \/ pc = "maps" /\ rank = numProcs /\ (T!numHosts < 2 \/ coresForHPThreads = 0)
  /\ UNCHANGED <<vars, choiceVars>>

ChoiceNext == \/ BuildMaps \/ Start \/ SearchServer \/ ClientRequest
              \/ ServerHandle \/ ServerRequest \/ Stop

\* The search is a loop of one process
ChoiceSpec == ChoiceInit /\ [][ChoiceNext]_<<vars, choiceVars>> /\ WF_<<vars, choiceVars>>(SearchServer)

(***************************************************************************)
(* Properties                                                              *)
(***************************************************************************)

\* What is sent is heard: the rank chosen from serverMap is a process on another host
\* that takes itself, from its own rank, for a server thread of the priority of the
\* communicator used (src/client.c:290-304, src/server.c:333-349 against 33 and 94-99).
ReachesListener ==
  targetServerRank # INVALID_INDEX =>
    /\ T!IsServer(targetServerRank)
    /\ T!server_getPriority(targetServerRank) <=> comm = "HP"
    /\ T!HostOf(targetServerRank) # T!HostOf(self)

\* "pick random serverIDs until we find a server that is not on the same host"
\* (src/client.c:262-265, src/server.c:305-308): from every seed a process starts
\* from, and wherever the memory load has taken it, the search ends.
SearchEnds == pc = "serverID" ~> pc # "serverID"
==============================================================================
