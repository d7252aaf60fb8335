-------------------------------- MODULE QosSim --------------------------------
(***************************************************************************)
(* The running simulation: the request loop of every client process        *)
(* (src/client.c), the message loop of every server thread (src/server.c), *)
(* and the MPI channels between them.                                      *)
(*                                                                         *)
(* Clients send low and high priority requests to the server they chose;   *)
(* a server thread asks serverNetLoad[s] other servers before it answers a *)
(* high priority request, and keeps the request in a continuation until    *)
(* their replies are in.  A signal stops a client, which then tells every  *)
(* server thread to write its log.                                         *)
(*                                                                         *)
(* A step is one handler, from the receive to the last send: with the      *)
(* eager sends assumed here (a send never waits for its receive) the sends *)
(* of a handler commute with every step of the other processes.            *)
(***************************************************************************)
EXTENDS Topology, BitVector, Sequences

CONSTANTS serverNetLoad,      \* of each thread: requests to other servers per client request
          NumWarmupSamples,   \* NUM_WARMUP_SAMPLES
          MallocContents,     \* what malloc may leave in the continuations
          Signalled,          \* bounds: the clients that get their SIGUSR1,
          MaxHPReqs,          \* and the requests of each client
          MaxLPReqs

Comms == {"HP", "LP"}         \* highPriority_comm, lowPriority_comm

Kinds == {"HP REQUEST", "LP REQUEST", "HP SERVER REQUEST", "LP SERVER REQUEST",
          "HP ACK", "LP ACK", "SIM COMPLETE"}

\* The tag of MPI_Send is the slot of the continuation the message is for
Message == [kind : Kinds, tag : Slots]

Continuation == [replyCount : Nat, numRepliesNeeded : Nat, originClientRank : Ranks]

\* At least two hosts, all of them full, and a high priority thread on each:
\* otherwise chooseServerID never returns or chooseServerRank divides by zero.
ASSUME SimulationAssumption ==
  /\ numProcs % procsPerHost = 0
  /\ numHosts >= 2
  /\ coresForHPThreads > 0
  /\ serverNetLoad \in [ServerRanks -> Nat]
  /\ NumWarmupSamples \in Nat
  /\ MallocContents \subseteq Continuation
  /\ MallocContents # {}
  /\ Signalled \subseteq Clients
  /\ MaxHPReqs \in [Clients -> Nat] /\ MaxLPReqs \in [Clients -> Nat]

VARIABLES
  net,              \* net[<<k, s, d>>]: the messages from s to d on communicator k, oldest first
  aborted,          \* MPI aborted the job
  \* the clients
  pc,               \* "LP", "HP": about to check which kind of request is due; "wait"; "done"
  keepRunning,      \* client_keepRunning
  targetServerID,
  warmupCount, numHPReqSamples, numLPReqSamples,
  \* the server threads
  vector,           \* continuationVector: the slots that are free
  continuations,
  numHPReqMsgs, numLPReqMsgs,
  logFile_isOpen

clientVars == <<pc, keepRunning, targetServerID, warmupCount, numHPReqSamples, numLPReqSamples>>
slotVars   == <<vector, continuations>>
serverVars == <<vector, continuations, numHPReqMsgs, numLPReqMsgs, logFile_isOpen>>
countVars  == <<numHPReqMsgs, numLPReqMsgs>>
vars       == <<net, aborted, clientVars, serverVars>>

Channels == Comms \X Ranks \X Ranks

TypeOK ==
  /\ net \in [Channels -> Seq(Message)]
  /\ aborted \in BOOLEAN
  /\ pc \in [Clients -> {"LP", "HP", "wait", "done"}]
  /\ keepRunning \in [Clients -> BOOLEAN]
  /\ targetServerID \in [Clients -> Servers]
  /\ warmupCount \in [Clients -> Nat]
  /\ numHPReqSamples \in [Clients -> Nat]
  /\ numLPReqSamples \in [Clients -> Nat]
  /\ vector \in [ServerRanks -> SUBSET Positions]
  /\ continuations \in [ServerRanks -> [Slots -> Continuation]]
  /\ numHPReqMsgs \in [ServerRanks -> Nat]
  /\ numLPReqMsgs \in [ServerRanks -> Nat]
  /\ logFile_isOpen \in [ServerRanks -> BOOLEAN]

(***************************************************************************)
(* Messages                                                                *)
(***************************************************************************)

Msg(kind, tag) == [kind |-> kind, tag |-> tag]

\* A receive posted with MPI_ANY_SOURCE and MPI_ANY_TAG takes the oldest message
\* of any one source
Arrived(k, s, d)  == net[<<k, s, d>>] # <<>>
Consumed(k, s, d) == [net EXCEPT ![<<k, s, d>>] = Tail(@)]

Post(n, k, s, d, m) == [n EXCEPT ![<<k, s, d>>] = Append(@, m)]

\* One copy of m for every index that dests maps to a rank
PostAll(n, k, s, dests, m) ==
  [ch \in Channels |->
     IF ch[1] = k /\ ch[2] = s
     THEN n[ch] \o [j \in 1 .. Cardinality({x \in DOMAIN dests : dests[x] = ch[3]}) |-> m]
     ELSE n[ch]]

\* Mutant of ThreadsFor: low priority requests go to the high priority threads
ThreadsForHPOnly(k, h) == HPRanks(h)

\* chooseServerRank, serverChooseServerRank: the threads of a server that get
\* the requests of a communicator
ThreadsFor(k, h) == IF k = "HP" THEN HPRanks(h) ELSE LPRanks(h)

\* chooseServerID, serverChooseServerID: a server on another host than r
OtherServers(r) == Servers \ {HostOf(r)}

\* serverCreateNetworkRequest names the request after the communicator, and
\* chooses a server and a thread anew for each of them
ServerRequest(k, tag) ==
  Msg(IF k = "HP" THEN "HP SERVER REQUEST" ELSE "LP SERVER REQUEST", tag)

NetworkTargets(k, s) ==
  [1 .. serverNetLoad[s] -> UNION {ThreadsFor(k, h) : h \in OtherServers(s)}]

\* The communicator a server thread receives on
ServerComm(s) == IF server_getPriority(s) THEN "HP" ELSE "LP"

\* runClient and runServer, before their loops
ClientInit ==
  /\ pc = [c \in Clients |-> "LP"]
  /\ keepRunning = [c \in Clients |-> TRUE]
  /\ targetServerID \in {f \in [Clients -> Servers] : \A c \in Clients : f[c] \in OtherServers(c)}
  /\ warmupCount = [c \in Clients |-> 0]
  /\ numHPReqSamples = [c \in Clients |-> 0]
  /\ numLPReqSamples = [c \in Clients |-> 0]

ServerInit ==
  /\ vector = [s \in ServerRanks |-> createBitVector]
  /\ \E k \in MallocContents : continuations = [s \in ServerRanks |-> [t \in Slots |-> k]]
  /\ numHPReqMsgs = [s \in ServerRanks |-> 0]
  /\ numLPReqMsgs = [s \in ServerRanks |-> 0]
  /\ logFile_isOpen = [s \in ServerRanks |-> TRUE]

Init ==
  /\ net = [ch \in Channels |-> <<>>]
  /\ aborted = FALSE
  /\ ClientInit /\ ServerInit

(***************************************************************************)
(* The clients                                                             *)
(***************************************************************************)

\* Is it time for a request?  client_shouldSend may answer either way, except
\* that the bound on requests ends them.
SendLPReq(c) ==
  /\ pc[c] = "LP" /\ keepRunning[c]
  /\ numLPReqSamples[c] < MaxLPReqs[c]
  /\ \E d \in ThreadsFor("LP", targetServerID[c]) :
        net' = Post(net, "LP", c, d, Msg("LP REQUEST", 0))
  /\ numLPReqSamples' = [numLPReqSamples EXCEPT ![c] = @ + 1]
  /\ pc' = [pc EXCEPT ![c] = "HP"]
  /\ UNCHANGED <<aborted, keepRunning, targetServerID, warmupCount, numHPReqSamples, serverVars>>

SkipLPReq(c) ==
  /\ pc[c] = "LP" /\ keepRunning[c]
  /\ pc' = [pc EXCEPT ![c] = "HP"]
  /\ UNCHANGED <<net, aborted, keepRunning, targetServerID, warmupCount, numHPReqSamples,
                 numLPReqSamples, serverVars>>

SendHPReq(c) ==
  /\ pc[c] = "HP"
  /\ warmupCount[c] < MaxHPReqs[c]
  /\ \E d \in ThreadsFor("HP", targetServerID[c]) :
        net' = Post(net, "HP", c, d, Msg("HP REQUEST", 0))
  /\ pc' = [pc EXCEPT ![c] = "wait"]
  /\ UNCHANGED <<aborted, keepRunning, targetServerID, warmupCount, numHPReqSamples,
                 numLPReqSamples, serverVars>>

SkipHPReq(c) ==
  /\ pc[c] = "HP"
  /\ pc' = [pc EXCEPT ![c] = "LP"]
  /\ UNCHANGED <<net, aborted, keepRunning, targetServerID, warmupCount, numHPReqSamples,
                 numLPReqSamples, serverVars>>

\* Mutant of CountReply: the last warmup reply is a sample
CountReplyEarly(c, m) ==
  IF m.kind = "HP ACK"
  THEN /\ warmupCount' = [warmupCount EXCEPT ![c] = @ + 1]
       /\ numHPReqSamples' = IF warmupCount'[c] >= NumWarmupSamples
                             THEN [numHPReqSamples EXCEPT ![c] = @ + 1]
                             ELSE numHPReqSamples
  ELSE UNCHANGED <<warmupCount, numHPReqSamples>>

\* client_waitHPReply counts an ACK, and takes a sample once the warmup is over;
\* any other message it only reports
CountReply(c, m) ==
  IF m.kind = "HP ACK"
  THEN /\ warmupCount' = [warmupCount EXCEPT ![c] = @ + 1]
       /\ numHPReqSamples' = IF warmupCount'[c] > NumWarmupSamples
                             THEN [numHPReqSamples EXCEPT ![c] = @ + 1]
                             ELSE numHPReqSamples
  ELSE UNCHANGED <<warmupCount, numHPReqSamples>>

WaitHPReply(c) ==
  /\ pc[c] = "wait"
  /\ \E s \in Ranks :
        /\ Arrived("HP", s, c)
        /\ net' = Consumed("HP", s, c)
        /\ CountReply(c, Head(net[<<"HP", s, c>>]))
  /\ pc' = [pc EXCEPT ![c] = "LP"]
  /\ UNCHANGED <<aborted, keepRunning, targetServerID, numLPReqSamples, serverVars>>

\* Mutant of Signal: the handler itself sends SIM COMPLETE
SignalSendsComplete(c) ==
  /\ c \in Signalled
  /\ keepRunning[c]
  /\ keepRunning' = [keepRunning EXCEPT ![c] = FALSE]
  /\ net' = [ch \in Channels |-> IF ch[2] = c /\ ch[3] \in ServerRanks
                                 THEN Append(net[ch], Msg("SIM COMPLETE", 0))
                                 ELSE net[ch]]
  /\ UNCHANGED <<aborted, pc, targetServerID, warmupCount, numHPReqSamples,
                 numLPReqSamples, serverVars>>

\* SIGUSR1: client_intHandler
Signal(c) ==
  /\ c \in Signalled
  /\ keepRunning[c]
  /\ keepRunning' = [keepRunning EXCEPT ![c] = FALSE]
  /\ UNCHANGED <<net, aborted, pc, targetServerID, warmupCount, numHPReqSamples,
                 numLPReqSamples, serverVars>>

\* Mutant of Finish: SIM COMPLETE on the high priority communicator only
FinishHPOnly(c) ==
  /\ pc[c] = "LP" /\ ~keepRunning[c]
  /\ pc' = [pc EXCEPT ![c] = "done"]
  /\ net' = [ch \in Channels |-> IF ch[1] = "HP" /\ ch[2] = c /\ ch[3] \in ServerRanks
                                 THEN Append(net[ch], Msg("SIM COMPLETE", 0))
                                 ELSE net[ch]]
  /\ UNCHANGED <<aborted, keepRunning, targetServerID, warmupCount, numHPReqSamples,
                 numLPReqSamples, serverVars>>

\* The loop ends: SIM COMPLETE to every server thread, on both communicators
Finish(c) ==
  /\ pc[c] = "LP" /\ ~keepRunning[c]
  /\ pc' = [pc EXCEPT ![c] = "done"]
  /\ net' = [ch \in Channels |-> IF ch[2] = c /\ ch[3] \in ServerRanks
                                 THEN Append(net[ch], Msg("SIM COMPLETE", 0))
                                 ELSE net[ch]]
  /\ UNCHANGED <<aborted, keepRunning, targetServerID, warmupCount, numHPReqSamples,
                 numLPReqSamples, serverVars>>

ClientStep(c) == SendLPReq(c) \/ SkipLPReq(c) \/ SendHPReq(c) \/ SkipHPReq(c)
                 \/ WaitHPReply(c) \/ Finish(c)

(***************************************************************************)
(* The server threads: one action per branch of server_runThread.  k is    *)
(* the communicator of thread s, m the message it received from p.         *)
(***************************************************************************)

AnswerHPRequest(s, p, k, m) ==
  /\ m.kind = "HP REQUEST"
  /\ serverNetLoad[s] = 0
  /\ numHPReqMsgs' = [numHPReqMsgs EXCEPT ![s] = @ + 1]
  /\ net' = Post(Consumed(k, p, s), k, s, p, Msg("HP ACK", 0))
  /\ UNCHANGED <<aborted, clientVars, slotVars, numLPReqMsgs, logFile_isOpen>>

\* Mutant of SpreadHPRequest: the origin of the request is not stored
SpreadHPRequestNoOrigin(s, p, k, m) ==
  LET tag == getFirstOne(vector[s]) IN
  /\ m.kind = "HP REQUEST"
  /\ serverNetLoad[s] # 0
  /\ tag # INVALID_INDEX
  /\ numHPReqMsgs' = [numHPReqMsgs EXCEPT ![s] = @ + 1]
  /\ \E dests \in NetworkTargets(k, s) :
        net' = PostAll(Consumed(k, p, s), k, s, dests, ServerRequest(k, tag))
  /\ vector' = [vector EXCEPT ![s] = clearBit(@, tag)]
  /\ continuations' = [continuations EXCEPT ![s][tag].replyCount = 0,
                                            ![s][tag].numRepliesNeeded = serverNetLoad[s]]
  /\ UNCHANGED <<aborted, clientVars, numLPReqMsgs, logFile_isOpen>>

\* Mutant of SpreadHPRequest: replyCount keeps the replies of the slot's last use
SpreadHPRequestNoReset(s, p, k, m) ==
  LET tag == getFirstOne(vector[s]) IN
  /\ m.kind = "HP REQUEST"
  /\ serverNetLoad[s] # 0
  /\ tag # INVALID_INDEX
  /\ numHPReqMsgs' = [numHPReqMsgs EXCEPT ![s] = @ + 1]
  /\ \E dests \in NetworkTargets(k, s) :
        net' = PostAll(Consumed(k, p, s), k, s, dests, ServerRequest(k, tag))
  /\ vector' = [vector EXCEPT ![s] = clearBit(@, tag)]
  /\ continuations' = [continuations EXCEPT ![s][tag].numRepliesNeeded = serverNetLoad[s],
                                            ![s][tag].originClientRank = p]
  /\ UNCHANGED <<aborted, clientVars, numLPReqMsgs, logFile_isOpen>>

\* Mutant of SpreadHPRequest: the slot is not marked as used
SpreadHPRequestNoClear(s, p, k, m) ==
  LET tag == getFirstOne(vector[s]) IN
  /\ m.kind = "HP REQUEST"
  /\ serverNetLoad[s] # 0
  /\ tag # INVALID_INDEX
  /\ numHPReqMsgs' = [numHPReqMsgs EXCEPT ![s] = @ + 1]
  /\ \E dests \in NetworkTargets(k, s) :
        net' = PostAll(Consumed(k, p, s), k, s, dests, ServerRequest(k, tag))
  /\ UNCHANGED vector
  /\ continuations' = [continuations EXCEPT ![s][tag] =
        [replyCount |-> 0, numRepliesNeeded |-> serverNetLoad[s], originClientRank |-> p]]
  /\ UNCHANGED <<aborted, clientVars, numLPReqMsgs, logFile_isOpen>>

SpreadHPRequest(s, p, k, m) ==
  LET tag == getFirstOne(vector[s]) IN
  /\ m.kind = "HP REQUEST"
  /\ serverNetLoad[s] # 0
  /\ tag # INVALID_INDEX
  /\ numHPReqMsgs' = [numHPReqMsgs EXCEPT ![s] = @ + 1]
  /\ \E dests \in NetworkTargets(k, s) :
        net' = PostAll(Consumed(k, p, s), k, s, dests, ServerRequest(k, tag))
  /\ vector' = [vector EXCEPT ![s] = clearBit(@, tag)]
  /\ continuations' = [continuations EXCEPT ![s][tag] =
        [replyCount |-> 0, numRepliesNeeded |-> serverNetLoad[s], originClientRank |-> p]]
  /\ UNCHANGED <<aborted, clientVars, numLPReqMsgs, logFile_isOpen>>

\* No slot is free: the first send of serverCreateNetworkRequest has a negative tag
AbortOnFullVector(s, p, k, m) ==
  /\ m.kind = "HP REQUEST"
  /\ serverNetLoad[s] # 0
  /\ getFirstOne(vector[s]) = INVALID_INDEX
  /\ numHPReqMsgs' = [numHPReqMsgs EXCEPT ![s] = @ + 1]
  /\ net' = Consumed(k, p, s)
  /\ aborted' = TRUE
  /\ UNCHANGED <<clientVars, slotVars, numLPReqMsgs, logFile_isOpen>>

\* Nobody waits for a low priority request; its server requests all have tag 0
HandleLPRequest(s, p, k, m) ==
  /\ m.kind = "LP REQUEST"
  /\ numLPReqMsgs' = [numLPReqMsgs EXCEPT ![s] = @ + 1]
  /\ \E dests \in NetworkTargets(k, s) :
        net' = PostAll(Consumed(k, p, s), k, s, dests, ServerRequest(k, 0))
  /\ UNCHANGED <<aborted, clientVars, slotVars, numHPReqMsgs, logFile_isOpen>>

HandleServerRequest(s, p, k, m) ==
  /\ \/ /\ m.kind = "HP SERVER REQUEST"
        /\ net' = Post(Consumed(k, p, s), k, s, p, Msg("HP ACK", m.tag))
     \/ /\ m.kind = "LP SERVER REQUEST"
        /\ net' = Post(Consumed(k, p, s), k, s, p, Msg("LP ACK", m.tag))
  /\ UNCHANGED <<aborted, clientVars, serverVars>>

\* The continuation of tag, with one more reply
Replied(s, tag) == [continuations[s][tag] EXCEPT !.replyCount = @ + 1]
\* Mutants of IsLastReply: one reply too late, and one too early
IsPastLastReply(k)   == k.replyCount > k.numRepliesNeeded
IsAlmostLastReply(k) == k.replyCount + 1 >= k.numRepliesNeeded

IsLastReply(k) == k.replyCount = k.numRepliesNeeded

HandleHPAck(s, p, k, m) ==
  LET cont == Replied(s, m.tag) IN
  /\ m.kind = "HP ACK"
  /\ continuations' = [continuations EXCEPT ![s][m.tag] = cont]
  /\ IF IsLastReply(cont)
     THEN /\ net' = Post(Consumed(k, p, s), k, s, cont.originClientRank, Msg("HP ACK", 0))
          /\ vector' = [vector EXCEPT ![s] = setBit(@, m.tag)]
     ELSE /\ net' = Consumed(k, p, s)
          /\ UNCHANGED vector
  /\ UNCHANGED <<aborted, clientVars, countVars, logFile_isOpen>>

\* Low priority requests have no continuation: this one is what malloc left
HandleLPAck(s, p, k, m) ==
  LET cont == Replied(s, m.tag) IN
  /\ m.kind = "LP ACK"
  /\ continuations' = [continuations EXCEPT ![s][m.tag] = cont]
  /\ vector' = IF IsLastReply(cont) THEN [vector EXCEPT ![s] = setBit(@, m.tag)] ELSE vector
  /\ net' = Consumed(k, p, s)
  /\ UNCHANGED <<aborted, clientVars, countVars, logFile_isOpen>>

\* Writes the counts and closes the log, so only the first call has an effect
writeServerLog(s) == logFile_isOpen' = [logFile_isOpen EXCEPT ![s] = FALSE]

HandleSimComplete(s, p, k, m) ==
  /\ m.kind = "SIM COMPLETE"
  /\ net' = Consumed(k, p, s)
  /\ writeServerLog(s)
  /\ UNCHANGED <<aborted, clientVars, slotVars, countVars>>

ServerStep(s) ==
  \E p \in Ranks :
    LET k == ServerComm(s)
        m == Head(net[<<k, p, s>>])
    IN
    /\ Arrived(k, p, s)
    /\ \/ AnswerHPRequest(s, p, k, m)
       \/ SpreadHPRequest(s, p, k, m)
       \/ AbortOnFullVector(s, p, k, m)
       \/ HandleLPRequest(s, p, k, m)
       \/ HandleServerRequest(s, p, k, m)
       \/ HandleHPAck(s, p, k, m)
       \/ HandleLPAck(s, p, k, m)
       \/ HandleSimComplete(s, p, k, m)

\* Everything has been said: the processes stay in their last loops
Quiescent ==
  /\ \/ aborted
     \/ /\ \A c \in Clients : pc[c] = "done"
        /\ \A s \in ServerRanks, p \in Ranks : net[<<ServerComm(s), p, s>>] = <<>>
  /\ UNCHANGED vars

Next ==
  \/ /\ ~aborted
     /\ \/ \E c \in Clients : ClientStep(c) \/ Signal(c)
        \/ \E s \in ServerRanks : ServerStep(s)
  \/ Quiescent

Spec == Init /\ [][Next]_vars

\* Every process is a spinning operating system process of its own; the launcher
\* signals all of them in the end (run_sim.py, kill_sim).
Fairness == /\ \A c \in Clients : WF_vars(~aborted /\ ClientStep(c)) /\ WF_vars(~aborted /\ Signal(c))
            /\ \A s \in ServerRanks : WF_vars(~aborted /\ ServerStep(s))

FairSpec == Spec /\ Fairness

(***************************************************************************)
(* Safety                                                                  *)
(***************************************************************************)

\* The places of channel ch that hold a message of one of the kinds
Places(ch, kinds) == {n \in DOMAIN net[ch] : net[ch][n].kind \in kinds}

\* The assert of client_waitHPReply (src/client.c:174) and its two neighbours:
\* whatever reaches a client is an ACK from the server it chose, on the
\* communicator it listens to.
AcksFromTarget ==
  \A k \in Comms, s \in Ranks, c \in Clients : \A n \in DOMAIN net[<<k, s, c>>] :
    /\ k = "HP"
    /\ net[<<k, s, c>>][n] = Msg("HP ACK", 0)
    /\ s \in HPRanks(targetServerID[c])

\* The slots of server thread s that hold a request of client c
HeldFor(s, c) == {t \in Slots \ vector[s] : continuations[s][t].originClientRank = c}

\* Where the request of client c is: on its way to a thread, in a slot of a
\* thread, or on its way back as an ACK
Tokens(c) ==
  (UNION {{<<"request", s, n>> : n \in Places(<<"HP", c, s>>, {"HP REQUEST"})} : s \in ServerRanks})
  \union (UNION {{<<"held", s, t>> : t \in HeldFor(s, c)} : s \in ServerRanks})
  \union (UNION {{<<"ack", s, n>> : n \in DOMAIN net[<<"HP", s, c>>]} : s \in ServerRanks})

\* As long as no thread holds more requests than a word of its vector has bits, a
\* waiting client has exactly one request, reply or continuation in the system and
\* any other client none: no request is lost, answered twice, or answered to
\* the wrong client, although continuations and tags are reused
\* (src/server.c:136-149 and 188-216).
OneTokenPerClient ==
  ~aborted => \A c \in Clients : Cardinality(Tokens(c)) = IF pc[c] = "wait" THEN 1 ELSE 0

\* The server requests of slot t of s, and the ACKs to them, in flight
AwaitedReplies(s, t) ==
  Cardinality((UNION {{<<"out", d, n>> : n \in {x \in Places(<<"HP", s, d>>, {"HP SERVER REQUEST"}) :
                                                  net[<<"HP", s, d>>][x].tag = t}} : d \in ServerRanks})
              \union
              (UNION {{<<"back", d, n>> : n \in {x \in Places(<<"HP", d, s>>, {"HP ACK"}) :
                                                  net[<<"HP", d, s>>][x].tag = t}} : d \in ServerRanks}))

\* A continuation waits for exactly the replies that are still to come, and a
\* free slot for none: a reply never counts towards a later request that got the
\* same slot (src/server.c:206-215).
RepliesAccounted ==
  ~aborted =>
    \A s \in ServerRanks : \A t \in Slots :
      IF t \in vector[s] THEN AwaitedReplies(s, t) = 0
      ELSE LET cont == continuations[s][t] IN
           /\ AwaitedReplies(s, t) = cont.numRepliesNeeded - cont.replyCount
           /\ AwaitedReplies(s, t) > 0

\* What a thread is sent is something it listens for: requests, server requests
\* and ACKs travel on the communicator of the thread they are sent to, although
\* the sender takes the thread from serverMap (src/client.c:290-304,
\* src/server.c:333-349) and the thread takes its communicator from its rank
\* (src/server.c:94-110).  Only SIM COMPLETE goes out on both.
SentWhereHeard ==
  \A k \in Comms, p \in Ranks, s \in ServerRanks :
    k # ServerComm(s) => Places(<<k, p, s>>, Kinds \ {"SIM COMPLETE"}) = {}

InFlight(k, kind) ==
  Cardinality(UNION {{<<ch, n>> : n \in Places(ch, {kind})} : ch \in {k} \X Clients \X ServerRanks})

\* The sum of the numbers f[x], as the number of pairs of an x and a number up to f[x]
Total(f) == Cardinality(UNION {{x} \X (1 .. f[x]) : x \in DOMAIN f})

\* The two sides of the simulation agree on how many requests there were: the
\* REQUEST messages the server logs count are those the clients sent, less the
\* ones still queued; the high priority samples of a client are its replies
\* without the warmup (src/client.c:137 and 175-180, src/server.c:123 and 154).
RequestsCounted ==
  /\ Total(numLPReqMsgs) + InFlight("LP", "LP REQUEST") = Total(numLPReqSamples)
  /\ Total(numHPReqMsgs) + InFlight("HP", "HP REQUEST")
       = Total([c \in Clients |->
                 numHPReqSamples[c]
                 + (IF warmupCount[c] < NumWarmupSamples THEN warmupCount[c] ELSE NumWarmupSamples)
                 + (IF pc[c] = "wait" THEN 1 ELSE 0)])

\* A thread writes its log after it has counted every request of some client
\* that is done: SIM COMPLETE cannot overtake requests, as it is sent last and on
\* the communicator of the requests (src/client.c:104-109, src/server.c:230-233).
LogAfterRequests ==
  \A s \in ServerRanks :
    ~logFile_isOpen[s] =>
      \E c \in Clients :
        /\ pc[c] = "done"
        /\ \A k \in Comms : Places(<<k, c, s>>, {"HP REQUEST", "LP REQUEST"}) = {}

\* The job is aborted only by a thread all of whose slots hold requests of
\* clients that wait (src/server.c:137-142): never while a slot is free.
AbortOnlyWhenFull ==
  aborted => \E s \in ServerRanks :
               /\ vector[s] \intersect Slots = {}
               /\ \A t \in Slots : pc[continuations[s][t].originClientRank] = "wait"
               /\ Cardinality({c \in Clients : HeldFor(s, c) # {}}) = NumBits

(***************************************************************************)
(* Liveness, and the abstract service                                      *)
(***************************************************************************)

\* A client never waits for ever: every high priority request is answered with an
\* ACK to the client that sent it (README:79-82).  This takes no more requests at a
\* thread than a word of its vector has bits: beyond, getFirstOne may return a slot
\* in use, and of the two requests that share it one is never answered.
EveryRequestAnswered == \A c \in Clients : pc[c] = "wait" ~> pc[c] # "wait"

\* The simulation ends with all clients done and every server log written
EveryLogWritten == <>[]( /\ \A c \in Clients : pc[c] = "done"
                         /\ \A s \in ServerRanks : ~logFile_isOpen[s])

\* The threads that have the request of client c (at most one, OneTokenPerClient)
Submitted(c) == {s \in ServerRanks : Places(<<"HP", c, s>>, {"HP REQUEST"}) # {}}
Serving(c)   == {s \in ServerRanks : HeldFor(s, c) # {}}
Answering(c) == {s \in ServerRanks : net[<<"HP", s, c>>] # <<>>}

servicePhase ==
  [c \in Clients |-> IF Submitted(c) # {} THEN "submitted"
                     ELSE IF Serving(c) # {} THEN "serving"
                     ELSE IF Answering(c) # {} THEN "answered"
                     ELSE "idle"]

serviceThread ==
  [c \in Clients |-> LET T == Submitted(c) \union Serving(c) \union Answering(c)
                     IN  IF T = {} THEN INVALID_INDEX ELSE CHOOSE s \in T : TRUE]

Service == INSTANCE HPService WITH
  Threads <- ServerRanks, NoThread <- INVALID_INDEX, NumSlots <- NumBits,
  phase <- servicePhase, thread <- serviceThread

\* The message protocol implements the service: one answer per request, by the
\* thread that took the request, whatever the other servers and clients do.
ImplementsService == Service!Spec
==============================================================================
