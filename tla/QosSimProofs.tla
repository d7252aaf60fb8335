----------------------------- MODULE QosSimProofs -----------------------------
(***************************************************************************)
(* QosSim for every number of hosts, clients and threads, every network    *)
(* load, every size of the bit vector and any number of requests: its type *)
(* correctness and where messages may be; then where the requests and      *)
(* replies are, and how many; last, that the messages implement HPService, *)
(* step by step.                                                           *)
(***************************************************************************)
EXTENDS QosSim, BitVectorProofs, SequenceTheorems, FunctionTheorems

(***************************************************************************)
(* The topology                                                            *)
(***************************************************************************)

LEMMA RankKinds ==
  /\ Clients \subseteq Ranks /\ ServerRanks \subseteq Ranks
  /\ Clients \intersect ServerRanks = {}
  /\ \A k \in Comms, h \in Servers : ThreadsFor(k, h) \subseteq ServerRanks
BY DEF Clients, ServerRanks, ThreadsFor, HPRanks, LPRanks, IsHPServer, IsLPServer, IsServer

\* The threads that requests of a communicator are sent to are those that listen
\* to it: a thread computes from its rank the priority configMaps gave it.
LEMMA ThreadsListen ==
  ASSUME NEW k \in Comms, NEW h \in Servers, NEW s \in ThreadsFor(k, h)
  PROVE  s \in ServerRanks /\ ServerComm(s) = k
<1>1. clientThreadsPerHost \in Nat /\ serverThreadsPerHost \in Nat /\ coresForHPThreads \in Nat
  BY ArgumentsAssumption
<1>2. s \in Ranks /\ IsServer(s) /\ (k = "HP" <=> IsHPServer(s))
  BY DEF Comms, ThreadsFor, HPRanks, LPRanks, IsHPServer, IsLPServer
<1>3. hostOffset(s) \in Int
  BY <1>1, <1>2, ArgumentsAssumption DEF hostOffset, procsPerHost, Ranks
<1>4. threadID(s) = hostOffset(s) - clientThreadsPerHost
  BY <1>1 DEF threadID, hostOffset, procsPerHost
<1>5. server_getPriority(s) <=> IsHPServer(s)
  BY <1>1, <1>2, <1>3, <1>4 DEF server_getPriority, IsHPServer
<1> QED BY <1>2, <1>5 DEF ServerComm, ServerRanks, Comms

(***************************************************************************)
(* Channels                                                                *)
(***************************************************************************)

Elements(q) == {q[n] : n \in DOMAIN q}

Networks == [Channels -> Seq(Message)]

LEMMA MsgType ==
  ASSUME NEW kind \in Kinds, NEW tag \in Slots
  PROVE  Msg(kind, tag) \in Message
BY DEF Msg, Message

LEMMA ZeroIsSlot == 0 \in Slots
BY BitVectorAssumption DEF Slots

LEMMA ChannelTuple ==
  ASSUME NEW k \in Comms, NEW s \in Ranks, NEW d \in Ranks
  PROVE  <<k, s, d>> \in Channels
BY DEF Channels

LEMMA HeadTail ==
  ASSUME NEW q \in Seq(Message), q # <<>>
  PROVE  /\ Head(q) \in Message /\ Head(q) \in Elements(q)
         /\ Tail(q) \in Seq(Message)
         /\ Elements(Tail(q)) \subseteq Elements(q)
<1>1. Len(q) \in Nat /\ Len(q) > 0 /\ DOMAIN q = 1 .. Len(q) /\ \A n \in 1 .. Len(q) : q[n] \in Message
  BY EmptySeq, ElementOfSeq, LenProperties
<1>2. Head(q) = q[1]
  BY <1>1
<1>3. /\ Tail(q) \in Seq(Message)
      /\ DOMAIN Tail(q) = 1 .. Len(q) - 1
      /\ \A n \in 1 .. Len(q) - 1 : Tail(q)[n] = q[n + 1]
  BY <1>1, HeadTailProperties
<1> QED BY <1>1, <1>2, <1>3 DEF Elements

LEMMA AppendOne ==
  ASSUME NEW q \in Seq(Message), NEW m \in Message
  PROVE  /\ Append(q, m) \in Seq(Message)
         /\ Elements(Append(q, m)) = Elements(q) \union {m}
BY AppendProperties, LenProperties DEF Elements

LEMMA AppendCopies ==
  ASSUME NEW q \in Seq(Message), NEW m \in Message, NEW n \in Nat
  PROVE  /\ q \o [j \in 1 .. n |-> m] \in Seq(Message)
         /\ Elements(q \o [j \in 1 .. n |-> m]) \subseteq Elements(q) \union {m}
<1> DEFINE c == [j \in 1 .. n |-> m]
<1>1. c \in Seq(Message) /\ Len(c) = n
  BY SMT
<1>2. /\ q \o c \in Seq(Message)
      /\ DOMAIN (q \o c) = 1 .. Len(q) + n
      /\ \A j \in 1 .. Len(q) + n : (q \o c)[j] = IF j <= Len(q) THEN q[j] ELSE c[j - Len(q)]
  BY <1>1, ConcatProperties, LenProperties
<1>3. Len(q) \in Nat /\ DOMAIN q = 1 .. Len(q)
  BY LenProperties
<1>4. ASSUME NEW j \in 1 .. Len(q) + n PROVE (q \o c)[j] \in Elements(q) \union {m}
  BY <1>2, <1>3, <1>4 DEF Elements
<1> QED BY <1>2, <1>4 DEF Elements

\* Channels n2 hold, besides what n holds, only copies of m from s to some of D
Adds(n, n2, k, s, D, m) ==
  /\ n2 \in Networks
  /\ \A ch \in Channels : \A x \in Elements(n2[ch]) :
       x \in Elements(n[ch]) \/ (ch[1] = k /\ ch[2] = s /\ ch[3] \in D /\ x = m)

\* Receiving, sending one message and sending to many: what each leaves in the
\* channels
LEMMA ConsumedNet ==
  ASSUME net \in Networks, NEW k \in Comms, NEW s \in Ranks, NEW d \in Ranks, Arrived(k, s, d)
  PROVE  /\ Consumed(k, s, d) \in Networks
         /\ Head(net[<<k, s, d>>]) \in Message
         /\ Head(net[<<k, s, d>>]) \in Elements(net[<<k, s, d>>])
         /\ \A ch \in Channels : Elements(Consumed(k, s, d)[ch]) \subseteq Elements(net[ch])
<1>1. <<k, s, d>> \in Channels
  BY ChannelTuple
<1>2. net[<<k, s, d>>] \in Seq(Message) /\ net[<<k, s, d>>] # <<>>
  BY <1>1 DEF Networks, Arrived
<1>3. /\ Head(net[<<k, s, d>>]) \in Message /\ Head(net[<<k, s, d>>]) \in Elements(net[<<k, s, d>>])
      /\ Tail(net[<<k, s, d>>]) \in Seq(Message)
      /\ Elements(Tail(net[<<k, s, d>>])) \subseteq Elements(net[<<k, s, d>>])
  BY <1>2, HeadTail
<1> QED BY <1>1, <1>2, <1>3 DEF Consumed, Networks

LEMMA PostNet ==
  ASSUME NEW n \in Networks, NEW k \in Comms, NEW s \in Ranks, NEW d \in Ranks, NEW m \in Message
  PROVE  Adds(n, Post(n, k, s, d, m), k, s, {d}, m)
<1>1. <<k, s, d>> \in Channels /\ n[<<k, s, d>>] \in Seq(Message)
  BY ChannelTuple DEF Networks
<1>2. /\ Append(n[<<k, s, d>>], m) \in Seq(Message)
      /\ Elements(Append(n[<<k, s, d>>], m)) = Elements(n[<<k, s, d>>]) \union {m}
  BY <1>1, AppendOne
<1>3. Post(n, k, s, d, m) \in Networks
  BY <1>1, <1>2 DEF Post, Networks
<1>4. ASSUME NEW ch \in Channels, NEW x \in Elements(Post(n, k, s, d, m)[ch])
      PROVE  x \in Elements(n[ch]) \/ (ch[1] = k /\ ch[2] = s /\ ch[3] = d /\ x = m)
  <2>1. CASE ch = <<k, s, d>>
    <3>1. ch[1] = k /\ ch[2] = s /\ ch[3] = d
      BY <2>1
    <3>2. Post(n, k, s, d, m)[ch] = Append(n[<<k, s, d>>], m)
      BY <1>1, <2>1 DEF Post, Networks
    <3> QED BY <1>2, <2>1, <3>1, <3>2
  <2>2. CASE ch # <<k, s, d>>
    <3>1. Post(n, k, s, d, m)[ch] = n[ch]
      BY <1>1, <2>2 DEF Post, Networks
    <3> QED BY <3>1
  <2> QED BY <2>1, <2>2
<1> QED BY <1>3, <1>4 DEF Adds

LEMMA LoadIs == \A s \in ServerRanks : serverNetLoad[s] \in Nat /\ s \in Ranks
BY SimulationAssumption, RankKinds

LEMMA PostAllNet ==
  ASSUME NEW n \in Networks, NEW k \in Comms, NEW s \in ServerRanks, NEW D, NEW m \in Message,
         NEW dests \in [1 .. serverNetLoad[s] -> D]
  PROVE  Adds(n, PostAll(n, k, s, dests, m), k, s, D, m)
<1> DEFINE copies(d) == {x \in DOMAIN dests : dests[x] = d}
           new(ch) == n[ch] \o [j \in 1 .. Cardinality(copies(ch[3])) |-> m]
<1>1. IsFiniteSet(DOMAIN dests)
  BY FS_Interval, LoadIs
<1>2. \A d : copies(d) \subseteq DOMAIN dests
  OBVIOUS
<1>3. \A d : IsFiniteSet(copies(d)) /\ Cardinality(copies(d)) \in Nat
  BY <1>1, <1>2, FS_Subset, FS_CardinalityType
<1> HIDE DEF copies
<1>4. ASSUME NEW ch \in Channels
      PROVE  /\ new(ch) \in Seq(Message)
             /\ Elements(new(ch)) \subseteq Elements(n[ch]) \union {m}
  <2>1. n[ch] \in Seq(Message)
    BY DEF Networks
  <2>2. Cardinality(copies(ch[3])) \in Nat
    BY <1>3
  <2> QED BY <2>1, <2>2, AppendCopies, Zenon
<1>5. ASSUME NEW ch \in Channels, ch[3] \notin D
      PROVE  new(ch) = n[ch]
  <2>1. copies(ch[3]) = {}
    BY <1>5 DEF copies
  <2>2. Cardinality(copies(ch[3])) = 0
    BY <2>1, FS_EmptySet
  <2>3. [j \in 1 .. Cardinality(copies(ch[3])) |-> m] = <<>>
    BY <2>2
  <2>4. n[ch] \in Seq(Message)
    BY DEF Networks
  <2> QED BY <2>3, <2>4, ConcatEmptySeq
<1>6. PostAll(n, k, s, dests, m)
        = [ch \in Channels |-> IF ch[1] = k /\ ch[2] = s THEN new(ch) ELSE n[ch]]
  BY DEF PostAll, copies
<1> HIDE DEF new
<1>7. PostAll(n, k, s, dests, m) \in Networks
  BY <1>4, <1>6 DEF Networks
<1>8. ASSUME NEW ch \in Channels, NEW x \in Elements(PostAll(n, k, s, dests, m)[ch])
      PROVE  x \in Elements(n[ch]) \/ (ch[1] = k /\ ch[2] = s /\ ch[3] \in D /\ x = m)
  BY <1>4, <1>5, <1>6, <1>8
<1> QED BY <1>7, <1>8 DEF Adds

LEMMA NetworkTargetsListen ==
  ASSUME NEW k \in Comms, NEW s \in ServerRanks, NEW dests \in NetworkTargets(k, s)
  PROVE  dests \in [1 .. serverNetLoad[s] -> {d \in ServerRanks : ServerComm(d) = k}]
<1>1. \A h \in OtherServers(s) : ThreadsFor(k, h) \subseteq {d \in ServerRanks : ServerComm(d) = k}
  BY ThreadsListen DEF OtherServers
<1> QED BY <1>1 DEF NetworkTargets

(***************************************************************************)
(* The inductive invariant: what each kind of message says of its channel  *)
(***************************************************************************)

Listening(k) == {s \in ServerRanks : ServerComm(s) = k}

\* Slot t of s has been given to a request of a client that targets s; once it
\* has, its origin is always such a client, whether the slot is in use or free.
SlotOwned(s, t) ==
  /\ s \in ServerRanks
  /\ continuations[s][t].originClientRank \in Clients
  /\ s \in HPRanks(targetServerID[continuations[s][t].originClientRank])

MsgOK(k, p, d, m) ==
  /\ m.kind = "HP REQUEST" => k = "HP" /\ p \in Clients /\ d \in HPRanks(targetServerID[p])
  /\ m.kind = "LP REQUEST" => k = "LP" /\ p \in Clients /\ d \in LPRanks(targetServerID[p])
  /\ m.kind = "HP SERVER REQUEST" =>
       k = "HP" /\ {p, d} \subseteq Listening("HP") /\ SlotOwned(p, m.tag)
  /\ m.kind = "LP SERVER REQUEST" => k = "LP" /\ {p, d} \subseteq Listening("LP")
  /\ m.kind = "HP ACK" =>
       /\ k = "HP" /\ p \in Listening("HP")
       /\ IF d \in Clients THEN m.tag = 0 /\ p \in HPRanks(targetServerID[d])
          ELSE d \in Listening("HP") /\ SlotOwned(d, m.tag)
  /\ m.kind = "LP ACK" => k = "LP" /\ {p, d} \subseteq Listening("LP")
  /\ m.kind = "SIM COMPLETE" => p \in Clients /\ d \in ServerRanks

MsgInv == \A k \in Comms, p \in Ranks, d \in Ranks : \A m \in Elements(net[<<k, p, d>>]) :
             MsgOK(k, p, d, m)

IInv == TypeOK /\ MsgInv

\* A step that gives no slot to a wrong client only has to answer for the
\* messages it sends
LEMMA MsgInvStep ==
  ASSUME MsgInv, UNCHANGED targetServerID,
         \A s \in Ranks, t \in Slots : SlotOwned(s, t) => SlotOwned(s, t)',
         net \in Networks,
         \A k \in Comms, p \in Ranks, d \in Ranks : \A m \in Elements(net'[<<k, p, d>>]) :
            m \in Elements(net[<<k, p, d>>]) \/ MsgOK(k, p, d, m)'
  PROVE  MsgInv'
<1> SUFFICES ASSUME NEW k \in Comms, NEW p \in Ranks, NEW d \in Ranks,
                    NEW m \in Elements(net[<<k, p, d>>]), MsgOK(k, p, d, m)
             PROVE  MsgOK(k, p, d, m)'
  BY DEF MsgInv
<1>1. m \in Message
  BY ChannelTuple, ElementOfSeq, LenProperties DEF Networks, Elements
<1>2. m.tag \in Slots
  BY <1>1 DEF Message
<1> QED BY <1>2 DEF MsgOK

LEMMA Increment ==
  ASSUME NEW S, NEW f \in [S -> Nat], NEW x \in S
  PROVE  [f EXCEPT ![x] = @ + 1] \in [S -> Nat]
OBVIOUS

LEMMA MsgInvFrame ==
  ASSUME IInv, UNCHANGED <<net, targetServerID, continuations>>
  PROVE  MsgInv'
BY MsgInvStep DEF IInv, TypeOK, Networks, SlotOwned

(***************************************************************************)
(* The invariant holds at the start and is kept by every step              *)
(***************************************************************************)

LEMMA IInvInit == Init => IInv
<1> SUFFICES ASSUME Init PROVE IInv
  OBVIOUS
<1>1. net \in Networks /\ \A ch \in Channels : Elements(net[ch]) = {}
  BY DEF Init, ClientInit, ServerInit, Networks, Elements
<1>2. PICK k \in MallocContents : continuations = [s \in ServerRanks |-> [t \in Slots |-> k]]
  BY DEF Init, ClientInit, ServerInit
<1>3. continuations \in [ServerRanks -> [Slots -> Continuation]]
  BY <1>2, SimulationAssumption
<1>4. targetServerID \in [Clients -> Servers]
  BY DEF Init, ClientInit, ServerInit
<1>5. TypeOK
  BY <1>1, <1>3, <1>4 DEF Init, ClientInit, ServerInit, TypeOK, Networks, createBitVector
<1>6. MsgInv
  BY <1>1, ChannelTuple DEF MsgInv
<1> QED BY <1>5, <1>6 DEF IInv

\* What both sides need to know of the message they receive
LEMMA Received ==
  ASSUME IInv, NEW k \in Comms, NEW p \in Ranks, NEW d \in Ranks, Arrived(k, p, d)
  PROVE  /\ Consumed(k, p, d) \in Networks
         /\ Head(net[<<k, p, d>>]) \in Message
         /\ MsgOK(k, p, d, Head(net[<<k, p, d>>]))
         /\ \A ch \in Channels : Elements(Consumed(k, p, d)[ch]) \subseteq Elements(net[ch])
BY ConsumedNet DEF IInv, TypeOK, MsgInv, Networks

\* A step that receives at most, and sends m to D, has to answer for m
LEMMA SendInv ==
  ASSUME IInv, NEW n \in Networks,
         \A ch \in Channels : Elements(n[ch]) \subseteq Elements(net[ch]),
         NEW k \in Comms, NEW s \in Ranks, NEW D \in SUBSET Ranks, NEW m \in Message,
         Adds(n, net', k, s, D, m),
         UNCHANGED targetServerID,
         \A r \in Ranks, t \in Slots : SlotOwned(r, t) => SlotOwned(r, t)',
         \A d \in D : MsgOK(k, s, d, m)'
  PROVE  net' \in Networks /\ MsgInv'
<1>1. ASSUME NEW k2 \in Comms, NEW p2 \in Ranks, NEW d2 \in Ranks,
             NEW x \in Elements(net'[<<k2, p2, d2>>])
      PROVE  x \in Elements(net[<<k2, p2, d2>>]) \/ MsgOK(k2, p2, d2, x)'
  <2> DEFINE ch == <<k2, p2, d2>>
  <2>1. ch \in Channels /\ ch[1] = k2 /\ ch[2] = p2 /\ ch[3] = d2
    BY ChannelTuple
  <2> HIDE DEF ch
  <2>2. x \in Elements(net'[ch])
    BY <1>1 DEF ch
  <2>3. x \in Elements(n[ch]) \/ (k2 = k /\ p2 = s /\ d2 \in D /\ x = m)
    BY <2>1, <2>2 DEF Adds
  <2>4. x \in Elements(net[ch]) \/ (k2 = k /\ p2 = s /\ d2 \in D /\ x = m)
    BY <2>1, <2>3
  <2> QED BY <2>4 DEF ch
<1>2. net \in Networks
  BY DEF IInv, TypeOK, Networks
<1> QED BY <1>1, <1>2, MsgInvStep DEF IInv, Adds

LEMMA SendOneInv ==
  ASSUME IInv, NEW n \in Networks,
         \A ch \in Channels : Elements(n[ch]) \subseteq Elements(net[ch]),
         NEW k \in Comms, NEW s \in Ranks, NEW d \in Ranks, NEW m \in Message,
         net' = Post(n, k, s, d, m),
         UNCHANGED targetServerID,
         \A r \in Ranks, t \in Slots : SlotOwned(r, t) => SlotOwned(r, t)',
         MsgOK(k, s, d, m)'
  PROVE  net' \in Networks /\ MsgInv'
<1>1. Adds(n, net', k, s, {d}, m)
  BY PostNet
<1>2. {d} \in SUBSET Ranks /\ \A x \in {d} : MsgOK(k, s, x, m)'
  OBVIOUS
<1> QED BY <1>1, <1>2, SendInv

\* A step of a client that sends m to d
LEMMA ClientPost ==
  ASSUME IInv, NEW c \in Clients, NEW k \in Comms, NEW d \in ServerRanks, NEW m \in Message,
         net' = Post(net, k, c, d, m), MsgOK(k, c, d, m),
         UNCHANGED <<targetServerID, continuations>>
  PROVE  net' \in Networks /\ MsgInv'
<1>1. c \in Ranks /\ d \in Ranks /\ net \in Networks
  BY RankKinds DEF IInv, TypeOK, Networks
<1>2. PICK n \in Networks : n = net
  BY <1>1
<1>3. \A r \in Ranks, t \in Slots : SlotOwned(r, t) => SlotOwned(r, t)'
  BY DEF SlotOwned
<1>4. MsgOK(k, c, d, m)'
  BY DEF MsgOK, SlotOwned
<1> QED BY <1>1, <1>2, <1>3, <1>4, SendOneInv

LEMMA ClientStepInv ==
  ASSUME IInv, NEW c \in Clients, ClientStep(c) \/ Signal(c)
  PROVE  IInv'
<1> USE DEF IInv
<1>0. c \in Ranks /\ net \in Networks /\ targetServerID[c] \in Servers
  BY RankKinds DEF TypeOK, Networks
<1>1. CASE SendLPReq(c)
  <2>1. PICK d \in ThreadsFor("LP", targetServerID[c]) :
          net' = Post(net, "LP", c, d, Msg("LP REQUEST", 0))
    BY <1>1 DEF SendLPReq
  <2>2. /\ d \in ServerRanks /\ d \in LPRanks(targetServerID[c])
        /\ Msg("LP REQUEST", 0) \in Message
    BY <1>0, <2>1, RankKinds, MsgType, ZeroIsSlot DEF Comms, Kinds, ThreadsFor
  <2>3. MsgOK("LP", c, d, Msg("LP REQUEST", 0))
    BY <2>2 DEF MsgOK, Msg
  <2>4. net' \in Networks /\ MsgInv'
    BY <1>1, <2>1, <2>2, <2>3, ClientPost DEF SendLPReq, serverVars, Comms
  <2>5. numLPReqSamples' \in [Clients -> Nat]
    BY <1>1, Increment DEF SendLPReq, TypeOK
  <2>6. TypeOK'
    BY <1>1, <2>4, <2>5 DEF SendLPReq, TypeOK, Networks, serverVars
  <2> QED BY <2>4, <2>6
<1>2. CASE SkipLPReq(c)
  <2>1. TypeOK'
    BY <1>2 DEF SkipLPReq, TypeOK, serverVars
  <2>2. MsgInv'
    BY <1>2, MsgInvFrame DEF SkipLPReq, serverVars
  <2> QED BY <2>1, <2>2
<1>3. CASE SendHPReq(c)
  <2>1. PICK d \in ThreadsFor("HP", targetServerID[c]) :
          net' = Post(net, "HP", c, d, Msg("HP REQUEST", 0))
    BY <1>3 DEF SendHPReq
  <2>2. /\ d \in ServerRanks /\ d \in HPRanks(targetServerID[c])
        /\ Msg("HP REQUEST", 0) \in Message
    BY <1>0, <2>1, RankKinds, MsgType, ZeroIsSlot DEF Comms, Kinds, ThreadsFor
  <2>3. MsgOK("HP", c, d, Msg("HP REQUEST", 0))
    BY <2>2 DEF MsgOK, Msg
  <2>4. net' \in Networks /\ MsgInv'
    BY <1>3, <2>1, <2>2, <2>3, ClientPost DEF SendHPReq, serverVars, Comms
  <2>5. TypeOK'
    BY <1>3, <2>4 DEF SendHPReq, TypeOK, Networks, serverVars
  <2> QED BY <2>4, <2>5
<1>4. CASE SkipHPReq(c)
  <2>1. TypeOK'
    BY <1>4 DEF SkipHPReq, TypeOK, serverVars
  <2>2. MsgInv'
    BY <1>4, MsgInvFrame DEF SkipHPReq, serverVars
  <2> QED BY <2>1, <2>2
<1>5. CASE WaitHPReply(c)
  <2>1. PICK s \in Ranks : /\ Arrived("HP", s, c) /\ net' = Consumed("HP", s, c)
                            /\ CountReply(c, Head(net[<<"HP", s, c>>]))
    BY <1>5 DEF WaitHPReply
  <2>2. /\ net' \in Networks
        /\ \A ch \in Channels : Elements(net'[ch]) \subseteq Elements(net[ch])
    BY <1>0, <2>1, Received DEF Comms
  <2>3. MsgInv'
    BY <1>0, <1>5, <2>2, ChannelTuple, MsgInvStep DEF WaitHPReply, serverVars, SlotOwned
  <2>4. warmupCount' \in [Clients -> Nat]
    <3>1. \/ warmupCount' = [warmupCount EXCEPT ![c] = @ + 1]
          \/ warmupCount' = warmupCount
      BY <2>1 DEF CountReply
    <3>2. warmupCount \in [Clients -> Nat]
      BY DEF TypeOK
    <3> QED BY <3>1, <3>2, Increment
  <2>5. numHPReqSamples' \in [Clients -> Nat]
    <3>1. \/ numHPReqSamples' = [numHPReqSamples EXCEPT ![c] = @ + 1]
          \/ numHPReqSamples' = numHPReqSamples
      BY <2>1 DEF CountReply
    <3>2. numHPReqSamples \in [Clients -> Nat]
      BY DEF TypeOK
    <3> QED BY <3>1, <3>2, Increment
  <2>6. /\ pc' = [pc EXCEPT ![c] = "LP"]
        /\ UNCHANGED <<aborted, keepRunning, targetServerID, numLPReqSamples, serverVars>>
    BY <1>5 DEF WaitHPReply
  <2>7. TypeOK'
    BY <2>2, <2>4, <2>5, <2>6 DEF TypeOK, Networks, serverVars
  <2> QED BY <2>3, <2>7
<1>6. CASE Finish(c)
  <2> DEFINE m == Msg("SIM COMPLETE", 0)
  <2>1. m \in Message /\ m.kind = "SIM COMPLETE"
    BY MsgType, ZeroIsSlot DEF Kinds, Msg
  <2>2. ASSUME NEW ch \in Channels
        PROVE  /\ net'[ch] \in Seq(Message)
               /\ \A x \in Elements(net'[ch]) :
                    x \in Elements(net[ch]) \/ (ch[2] = c /\ ch[3] \in ServerRanks /\ x = m)
    <3>1. net[ch] \in Seq(Message)
      BY <1>0 DEF Networks
    <3>2. net'[ch] = IF ch[2] = c /\ ch[3] \in ServerRanks THEN Append(net[ch], m) ELSE net[ch]
      BY <1>6 DEF Finish
    <3>3. /\ Append(net[ch], m) \in Seq(Message)
          /\ Elements(Append(net[ch], m)) = Elements(net[ch]) \union {m}
      BY <2>1, <3>1, AppendOne
    <3> HIDE DEF m
    <3> QED BY <3>1, <3>2, <3>3
  <2>3. net' \in Networks
    BY <1>6, <2>2 DEF Networks, Finish
  <2>4. ASSUME NEW k \in Comms, NEW p \in Ranks, NEW d \in Ranks,
               NEW x \in Elements(net'[<<k, p, d>>])
        PROVE  x \in Elements(net[<<k, p, d>>]) \/ MsgOK(k, p, d, x)'
    <3>1. x \in Elements(net[<<k, p, d>>]) \/ (p = c /\ d \in ServerRanks /\ x = m)
      BY <2>2, ChannelTuple
    <3> QED BY <2>1, <3>1 DEF MsgOK
  <2>5. MsgInv'
    BY <1>0, <1>6, <2>4, MsgInvStep DEF Finish, serverVars, SlotOwned
  <2>6. TypeOK'
    BY <1>6, <2>3 DEF Finish, TypeOK, Networks, serverVars
  <2> QED BY <2>5, <2>6
<1>7. CASE Signal(c)
  <2>1. TypeOK'
    BY <1>7 DEF Signal, TypeOK, serverVars
  <2>2. MsgInv'
    BY <1>7, MsgInvFrame DEF Signal, serverVars
  <2> QED BY <2>1, <2>2
<1> QED BY <1>1, <1>2, <1>3, <1>4, <1>5, <1>6, <1>7 DEF ClientStep

\* The step writes cont to slot tag of thread s
Writes(s, tag, cont) == continuations' = [continuations EXCEPT ![s][tag] = cont]

\* The continuations of a step that writes one slot, and who owns the others
LEMMA ContinuationsAfter ==
  ASSUME IInv, NEW s \in ServerRanks, NEW tag \in Slots, NEW cont \in Continuation,
         Writes(s, tag, cont)
  PROVE  /\ continuations' \in [ServerRanks -> [Slots -> Continuation]]
         /\ continuations'[s][tag] = cont
         /\ \A r \in ServerRanks, t \in Slots :
              r # s \/ t # tag => continuations'[r][t] = continuations[r][t]
<1>1. continuations \in [ServerRanks -> [Slots -> Continuation]]
  BY DEF IInv, TypeOK
<1> DEFINE row == [continuations[s] EXCEPT ![tag] = cont]
<1>2. continuations' = [continuations EXCEPT ![s] = row]
  BY DEF Writes
<1>3. row \in [Slots -> Continuation]
  BY <1>1
<1>4. row[tag] = cont /\ \A t \in Slots : t # tag => row[t] = continuations[s][t]
  BY <1>1
<1> HIDE DEF row
<1>5. continuations'[s] = row /\ \A r \in ServerRanks : r # s => continuations'[r] = continuations[r]
  BY <1>1, <1>2
<1>6. continuations' \in [ServerRanks -> [Slots -> Continuation]]
  BY <1>1, <1>2, <1>3
<1>7. ASSUME NEW r \in ServerRanks, NEW t \in Slots, r # s \/ t # tag
      PROVE  continuations'[r][t] = continuations[r][t]
  BY <1>4, <1>5, <1>7
<1> QED BY <1>4, <1>5, <1>6, <1>7

\* One more reply for a slot: it keeps its owner
LEMMA OneMoreReply ==
  ASSUME IInv, NEW s \in ServerRanks, NEW tag \in Slots,
         continuations' = [continuations EXCEPT ![s][tag] = Replied(s, tag)],
         UNCHANGED targetServerID
  PROVE  /\ continuations' \in [ServerRanks -> [Slots -> Continuation]]
         /\ Replied(s, tag).originClientRank = continuations[s][tag].originClientRank
         /\ \A r \in Ranks, t \in Slots : SlotOwned(r, t) => SlotOwned(r, t)'
<1>1. continuations[s][tag] \in Continuation
  BY DEF IInv, TypeOK
<1>2. Replied(s, tag) \in Continuation
  BY <1>1 DEF Replied, Continuation
<1>3. Replied(s, tag).originClientRank = continuations[s][tag].originClientRank
  BY <1>1 DEF Replied, Continuation
<1>4. PICK cont \in Continuation : cont = Replied(s, tag)
  BY <1>2
<1>5. /\ continuations' \in [ServerRanks -> [Slots -> Continuation]]
      /\ continuations'[s][tag] = cont
      /\ \A r \in ServerRanks, t \in Slots :
           r # s \/ t # tag => continuations'[r][t] = continuations[r][t]
  <2>1. Writes(s, tag, cont)
    BY <1>4 DEF Writes
  <2> QED BY <2>1, ContinuationsAfter
<1>6. \A r \in ServerRanks, t \in Slots :
        continuations'[r][t].originClientRank = continuations[r][t].originClientRank
  BY <1>3, <1>4, <1>5
<1> QED BY <1>3, <1>5, <1>6 DEF SlotOwned

\* What one handler of thread s does with message m of p, received on k
Handler(s, p, k, m) ==
  \/ AnswerHPRequest(s, p, k, m)
  \/ SpreadHPRequest(s, p, k, m)
  \/ AbortOnFullVector(s, p, k, m)
  \/ HandleLPRequest(s, p, k, m)
  \/ HandleServerRequest(s, p, k, m)
  \/ HandleHPAck(s, p, k, m)
  \/ HandleLPAck(s, p, k, m)
  \/ HandleSimComplete(s, p, k, m)

\* A handler that only receives, and touches no continuation and no client
LEMMA ConsumeInv ==
  ASSUME IInv, NEW n \in Networks,
         \A ch \in Channels : Elements(n[ch]) \subseteq Elements(net[ch]),
         net' = n, UNCHANGED targetServerID,
         \A r \in Ranks, t \in Slots : SlotOwned(r, t) => SlotOwned(r, t)'
  PROVE  net' \in Networks /\ MsgInv'
<1>1. \A k \in Comms, p \in Ranks, d \in Ranks : \A x \in Elements(net'[<<k, p, d>>]) :
        x \in Elements(net[<<k, p, d>>])
  BY ChannelTuple
<1>2. net \in Networks
  BY DEF IInv, TypeOK, Networks
<1> QED BY <1>1, <1>2, MsgInvStep DEF IInv

LEMMA HandlerInv ==
  ASSUME IInv, NEW s \in ServerRanks, NEW p \in Ranks, NEW k \in Comms, NEW m \in Message,
         k = ServerComm(s), NEW n \in Networks, n = Consumed(k, p, s),
         \A ch \in Channels : Elements(n[ch]) \subseteq Elements(net[ch]),
         MsgOK(k, p, s, m), Handler(s, p, k, m)
  PROVE  IInv'
<1>0. /\ s \in Ranks /\ s \notin Clients /\ s \in Listening(k)
      /\ m.tag \in Slots /\ m.tag \in Positions /\ 0 \in Slots
  BY RankKinds, VectorCoversSlots, ZeroIsSlot DEF Listening, Message
<1>1. CASE AnswerHPRequest(s, p, k, m)
  <2> DEFINE ack == Msg("HP ACK", 0)
  <2>1. k = "HP" /\ p \in Clients /\ s \in HPRanks(targetServerID[p])
    BY <1>1 DEF AnswerHPRequest, MsgOK
  <2>2. ack \in Message /\ ack.kind = "HP ACK" /\ ack.tag = 0
    BY <1>0, MsgType DEF Kinds, Msg
  <2>3. UNCHANGED <<targetServerID, continuations>> /\ net' = Post(n, k, s, p, ack)
    BY <1>1 DEF AnswerHPRequest, clientVars, slotVars
  <2> HIDE DEF ack
  <2>4. \A r \in Ranks, t \in Slots : SlotOwned(r, t) => SlotOwned(r, t)'
    BY <2>3 DEF SlotOwned
  <2>5. MsgOK(k, s, p, ack)'
    BY <1>0, <2>1, <2>2, <2>3 DEF MsgOK
  <2>6. net' \in Networks /\ MsgInv'
    BY <1>0, <2>2, <2>3, <2>4, <2>5, SendOneInv
  <2>7. numHPReqMsgs' \in [ServerRanks -> Nat]
    BY <1>1, Increment DEF AnswerHPRequest, IInv, TypeOK
  <2>8. TypeOK'
    BY <1>1, <2>6, <2>7 DEF AnswerHPRequest, IInv, TypeOK, Networks, clientVars, slotVars
  <2> QED BY <2>6, <2>8 DEF IInv
<1>2. CASE SpreadHPRequest(s, p, k, m)
  <2>1. k = "HP" /\ p \in Clients /\ s \in HPRanks(targetServerID[p])
    BY <1>2 DEF SpreadHPRequest, MsgOK
  <2>2. PICK tag \in Slots : tag = getFirstOne(vector[s])
    BY <1>2, GetFirstOneRange DEF SpreadHPRequest
  <2> DEFINE cont == [replyCount |-> 0, numRepliesNeeded |-> serverNetLoad[s], originClientRank |-> p]
             req == ServerRequest(k, tag)
  <2>3. PICK dests \in NetworkTargets(k, s) : net' = PostAll(n, k, s, dests, req)
    BY <1>2, <2>2 DEF SpreadHPRequest
  <2>4. /\ continuations' = [continuations EXCEPT ![s][tag] = cont]
        /\ vector' = [vector EXCEPT ![s] = clearBit(@, tag)]
        /\ UNCHANGED targetServerID
    BY <1>2, <2>2 DEF SpreadHPRequest, clientVars
  <2>5. cont \in Continuation /\ cont.originClientRank = p
    BY LoadIs DEF Continuation
  <2>6. req \in Message /\ req.kind = "HP SERVER REQUEST" /\ req.tag = tag
    BY <2>1, <2>2, MsgType DEF ServerRequest, Kinds, Msg
  <2> HIDE DEF cont, req
  <2>7. /\ continuations' \in [ServerRanks -> [Slots -> Continuation]]
        /\ continuations'[s][tag] = cont
        /\ \A r \in ServerRanks, t \in Slots :
             r # s \/ t # tag => continuations'[r][t] = continuations[r][t]
    <3>1. Writes(s, tag, cont)
      BY <2>4 DEF Writes
    <3> QED BY <2>5, <3>1, ContinuationsAfter
  <2>8. SlotOwned(s, tag)'
    BY <2>1, <2>4, <2>5, <2>7 DEF SlotOwned
  <2>9. \A r \in Ranks, t \in Slots : SlotOwned(r, t) => SlotOwned(r, t)'
    BY <2>4, <2>7, <2>8 DEF SlotOwned
  <2>10. dests \in [1 .. serverNetLoad[s] -> Listening(k)]
    BY <1>0, NetworkTargetsListen DEF Listening
  <2>11. Adds(n, net', k, s, Listening(k), req)
    BY <1>0, <2>3, <2>6, <2>10, PostAllNet
  <2>12. \A d \in Listening(k) : MsgOK(k, s, d, req)'
    BY <1>0, <2>1, <2>6, <2>8 DEF MsgOK
  <2>13. Listening(k) \in SUBSET Ranks
    BY RankKinds DEF Listening
  <2>14. net' \in Networks /\ MsgInv'
    BY <1>0, <2>4, <2>6, <2>9, <2>11, <2>12, <2>13, SendInv
  <2>15. numHPReqMsgs' \in [ServerRanks -> Nat]
    BY <1>2, Increment DEF SpreadHPRequest, IInv, TypeOK
  <2>16. vector' \in [ServerRanks -> SUBSET Positions]
    BY <2>4 DEF IInv, TypeOK, clearBit
  <2>17. TypeOK'
    BY <1>2, <2>7, <2>14, <2>15, <2>16 DEF SpreadHPRequest, IInv, TypeOK, Networks, clientVars
  <2> QED BY <2>14, <2>17 DEF IInv
<1>3. CASE AbortOnFullVector(s, p, k, m)
  <2>1. UNCHANGED <<targetServerID, continuations>> /\ net' = n
    BY <1>3 DEF AbortOnFullVector, clientVars, slotVars
  <2>2. net' \in Networks /\ MsgInv'
    BY <2>1, ConsumeInv DEF SlotOwned
  <2>3. numHPReqMsgs' \in [ServerRanks -> Nat]
    BY <1>3, Increment DEF AbortOnFullVector, IInv, TypeOK
  <2>4. TypeOK'
    BY <1>3, <2>2, <2>3 DEF AbortOnFullVector, IInv, TypeOK, Networks, clientVars, slotVars
  <2> QED BY <2>2, <2>4 DEF IInv
<1>4. CASE HandleLPRequest(s, p, k, m)
  <2> DEFINE req == ServerRequest(k, 0)
  <2>1. k = "LP"
    BY <1>4 DEF HandleLPRequest, MsgOK
  <2>2. PICK dests \in NetworkTargets(k, s) : net' = PostAll(n, k, s, dests, req)
    BY <1>4 DEF HandleLPRequest
  <2>3. req \in Message /\ req.kind = "LP SERVER REQUEST"
    BY <1>0, <2>1, MsgType DEF ServerRequest, Kinds, Msg
  <2>4. UNCHANGED <<targetServerID, continuations>>
    BY <1>4 DEF HandleLPRequest, clientVars, slotVars
  <2> HIDE DEF req
  <2>5. dests \in [1 .. serverNetLoad[s] -> Listening(k)]
    BY <1>0, NetworkTargetsListen DEF Listening
  <2>6. Adds(n, net', k, s, Listening(k), req)
    BY <1>0, <2>2, <2>3, <2>5, PostAllNet
  <2>7. \A d \in Listening(k) : MsgOK(k, s, d, req)'
    BY <1>0, <2>1, <2>3 DEF MsgOK
  <2>8. Listening(k) \in SUBSET Ranks
    BY RankKinds DEF Listening
  <2>9. net' \in Networks /\ MsgInv'
    BY <1>0, <2>3, <2>4, <2>6, <2>7, <2>8, SendInv DEF SlotOwned
  <2>10. numLPReqMsgs' \in [ServerRanks -> Nat]
    BY <1>4, Increment DEF HandleLPRequest, IInv, TypeOK
  <2>11. TypeOK'
    BY <1>4, <2>9, <2>10 DEF HandleLPRequest, IInv, TypeOK, Networks, clientVars, slotVars
  <2> QED BY <2>9, <2>11 DEF IInv
<1>5. CASE HandleServerRequest(s, p, k, m)
  <2>1. UNCHANGED <<targetServerID, continuations>>
    BY <1>5 DEF HandleServerRequest, clientVars, serverVars
  <2>2. PICK kind \in {"HP ACK", "LP ACK"} :
          /\ net' = Post(n, k, s, p, Msg(kind, m.tag))
          /\ IF kind = "HP ACK" THEN m.kind = "HP SERVER REQUEST"
                                ELSE m.kind = "LP SERVER REQUEST"
    BY <1>5 DEF HandleServerRequest
  <2> DEFINE ack == Msg(kind, m.tag)
  <2>3. ack \in Message /\ ack.kind = kind /\ ack.tag = m.tag
    BY <1>0, MsgType DEF Kinds, Msg
  <2>4. net' = Post(n, k, s, p, ack)
    BY <2>2
  <2> HIDE DEF ack
  <2>5. \A r \in Ranks, t \in Slots : SlotOwned(r, t) => SlotOwned(r, t)'
    BY <2>1 DEF SlotOwned
  <2>6. \/ kind = "HP ACK" /\ k = "HP" /\ p \in Listening("HP") /\ SlotOwned(p, m.tag)
        \/ kind = "LP ACK" /\ k = "LP" /\ p \in Listening("LP")
    BY <2>2 DEF MsgOK
  <2>7. p \notin Clients
    BY <2>6, RankKinds DEF Listening
  <2>8. MsgOK(k, s, p, ack)'
    BY <1>0, <2>1, <2>3, <2>6, <2>7 DEF MsgOK, SlotOwned
  <2>9. net' \in Networks /\ MsgInv'
    BY <1>0, <2>1, <2>3, <2>4, <2>5, <2>8, SendOneInv
  <2>10. TypeOK'
    BY <1>5, <2>9 DEF HandleServerRequest, IInv, TypeOK, Networks, clientVars, serverVars
  <2> QED BY <2>9, <2>10 DEF IInv
<1>6. CASE HandleHPAck(s, p, k, m)
  <2>1. /\ k = "HP" /\ SlotOwned(s, m.tag)
    BY <1>0, <1>6 DEF HandleHPAck, MsgOK
  <2>2. /\ continuations' = [continuations EXCEPT ![s][m.tag] = Replied(s, m.tag)]
        /\ UNCHANGED targetServerID
    BY <1>6 DEF HandleHPAck, clientVars
  <2>3. /\ continuations' \in [ServerRanks -> [Slots -> Continuation]]
        /\ Replied(s, m.tag).originClientRank = continuations[s][m.tag].originClientRank
        /\ \A r \in Ranks, t \in Slots : SlotOwned(r, t) => SlotOwned(r, t)'
    BY <1>0, <2>2, OneMoreReply
  <2> DEFINE ack == Msg("HP ACK", 0)
  <2>4. ack \in Message /\ ack.kind = "HP ACK" /\ ack.tag = 0
    BY <1>0, MsgType DEF Kinds, Msg
  <2>5. PICK c \in Clients : /\ c = Replied(s, m.tag).originClientRank
                             /\ s \in HPRanks(targetServerID[c])
    BY <2>1, <2>3 DEF SlotOwned
  <2>6. net' = n \/ net' = Post(n, k, s, c, ack)
    BY <1>6, <2>5 DEF HandleHPAck
  <2> HIDE DEF ack
  <2>7. ASSUME net' = n PROVE net' \in Networks /\ MsgInv'
    BY <2>2, <2>3, <2>7, ConsumeInv
  <2>8. ASSUME net' = Post(n, k, s, c, ack) PROVE net' \in Networks /\ MsgInv'
    <3>1. c \in Ranks
      BY RankKinds
    <3>2. MsgOK(k, s, c, ack)'
      BY <1>0, <2>1, <2>2, <2>4, <2>5 DEF MsgOK
    <3> QED BY <1>0, <2>2, <2>3, <2>4, <2>8, <3>1, <3>2, SendOneInv
  <2>9. net' \in Networks /\ MsgInv'
    BY <2>6, <2>7, <2>8
  <2>10. vector' \in [ServerRanks -> SUBSET Positions]
    <3>1. vector' = [vector EXCEPT ![s] = setBit(@, m.tag)] \/ vector' = vector
      BY <1>6 DEF HandleHPAck
    <3>2. vector \in [ServerRanks -> SUBSET Positions]
      BY DEF IInv, TypeOK
    <3>3. vector[s] \union {m.tag} \in SUBSET Positions
      BY <1>0, <3>2
    <3> QED BY <3>1, <3>2, <3>3 DEF setBit
  <2>11. TypeOK'
    BY <1>6, <2>3, <2>9, <2>10 DEF HandleHPAck, IInv, TypeOK, Networks, clientVars, countVars
  <2> QED BY <2>9, <2>11 DEF IInv
<1>7. CASE HandleLPAck(s, p, k, m)
  <2>1. /\ continuations' = [continuations EXCEPT ![s][m.tag] = Replied(s, m.tag)]
        /\ UNCHANGED targetServerID /\ net' = n
    BY <1>7 DEF HandleLPAck, clientVars
  <2>2. /\ continuations' \in [ServerRanks -> [Slots -> Continuation]]
        /\ \A r \in Ranks, t \in Slots : SlotOwned(r, t) => SlotOwned(r, t)'
    BY <1>0, <2>1, OneMoreReply
  <2>3. net' \in Networks /\ MsgInv'
    BY <2>1, <2>2, ConsumeInv
  <2>4. vector' \in [ServerRanks -> SUBSET Positions]
    <3>1. vector' = [vector EXCEPT ![s] = setBit(@, m.tag)] \/ vector' = vector
      BY <1>7 DEF HandleLPAck
    <3>2. vector \in [ServerRanks -> SUBSET Positions]
      BY DEF IInv, TypeOK
    <3>3. vector[s] \union {m.tag} \in SUBSET Positions
      BY <1>0, <3>2
    <3> QED BY <3>1, <3>2, <3>3 DEF setBit
  <2>5. TypeOK'
    BY <1>7, <2>2, <2>3, <2>4 DEF HandleLPAck, IInv, TypeOK, Networks, clientVars, countVars
  <2> QED BY <2>3, <2>5 DEF IInv
<1>8. CASE HandleSimComplete(s, p, k, m)
  <2>1. UNCHANGED <<targetServerID, continuations>> /\ net' = n
    BY <1>8 DEF HandleSimComplete, clientVars, slotVars
  <2>2. net' \in Networks /\ MsgInv'
    BY <2>1, ConsumeInv DEF SlotOwned
  <2>3. TypeOK'
    BY <1>8, <2>2 DEF HandleSimComplete, writeServerLog, IInv, TypeOK, Networks, clientVars, slotVars, countVars
  <2> QED BY <2>2, <2>3 DEF IInv
<1> QED BY <1>1, <1>2, <1>3, <1>4, <1>5, <1>6, <1>7, <1>8 DEF Handler

LEMMA ServerStepInv ==
  ASSUME IInv, NEW s \in ServerRanks, ServerStep(s)
  PROVE  IInv'
<1> DEFINE k == ServerComm(s)
<1>1. PICK p \in Ranks : Arrived(k, p, s) /\ Handler(s, p, k, Head(net[<<k, p, s>>]))
  BY DEF ServerStep, Handler
<1>2. k \in Comms /\ s \in Ranks
  BY RankKinds DEF ServerComm, Comms
<1>3. /\ Consumed(k, p, s) \in Networks
      /\ Head(net[<<k, p, s>>]) \in Message
      /\ MsgOK(k, p, s, Head(net[<<k, p, s>>]))
      /\ \A ch \in Channels : Elements(Consumed(k, p, s)[ch]) \subseteq Elements(net[ch])
  BY <1>1, <1>2, Received
<1>4. PICK m \in Message : m = Head(net[<<k, p, s>>])
  BY <1>3
<1>5. PICK n \in Networks : n = Consumed(k, p, s)
  BY <1>3
<1> QED BY <1>1, <1>2, <1>3, <1>4, <1>5, HandlerInv

LEMMA IInvNext == IInv /\ [Next]_vars => IInv'
<1> SUFFICES ASSUME IInv, [Next]_vars PROVE IInv'
  OBVIOUS
<1>1. CASE UNCHANGED vars
  <2>1. TypeOK'
    BY <1>1 DEF IInv, TypeOK, vars, clientVars, serverVars
  <2>2. MsgInv'
    BY <1>1, MsgInvFrame DEF vars, clientVars, serverVars
  <2> QED BY <2>1, <2>2 DEF IInv
<1>2. CASE Next /\ ~UNCHANGED vars
  <2>1. \/ \E c \in Clients : ClientStep(c) \/ Signal(c)
        \/ \E s \in ServerRanks : ServerStep(s)
    BY <1>2 DEF Next, Quiescent
  <2> QED BY <2>1, ClientStepInv, ServerStepInv
<1> QED BY <1>1, <1>2

LEMMA IInvAlways == Spec => []IInv
BY IInvInit, IInvNext, PTL DEF Spec

(***************************************************************************)
(* What it says                                                            *)
(***************************************************************************)

\* The variables keep their types: every tag on the wire is a slot of the vector,
\* and no handler writes outside the continuations (src/server.c:67-69 and 136-226).
THEOREM TypeCorrect == Spec => []TypeOK
BY IInvAlways, PTL DEF IInv

LEMMA AcksFromTargetInv == IInv => AcksFromTarget
<1> SUFFICES ASSUME IInv, NEW k \in Comms, NEW s \in Ranks, NEW c \in Clients,
                    NEW j \in DOMAIN net[<<k, s, c>>]
             PROVE  /\ k = "HP" /\ net[<<k, s, c>>][j] = Msg("HP ACK", 0)
                    /\ s \in HPRanks(targetServerID[c])
  BY DEF AcksFromTarget
<1>1. PICK m : m = net[<<k, s, c>>][j] /\ m \in Elements(net[<<k, s, c>>])
  BY DEF Elements
<1>2. c \in Ranks /\ c \notin ServerRanks
  BY RankKinds
<1>3. MsgOK(k, s, c, m)
  BY <1>1, <1>2 DEF IInv, MsgInv
<1>4. m \in Message
  BY <1>1, <1>2, ChannelTuple, ElementOfSeq, LenProperties DEF IInv, TypeOK, Elements
<1>5. m.kind = "HP ACK" /\ m.tag = 0 /\ k = "HP" /\ s \in HPRanks(targetServerID[c])
  <2>1. ASSUME NEW b \in Clients
        PROVE  c \notin HPRanks(targetServerID[b]) /\ c \notin LPRanks(targetServerID[b])
    <3>1. targetServerID[b] \in Servers
      BY DEF IInv, TypeOK
    <3> QED BY <1>2, <3>1, ThreadsListen DEF ThreadsFor, Comms
  <2>2. m.kind \in Kinds
    BY <1>4 DEF Message
  <2>3. m.kind = "HP ACK"
    BY <1>2, <1>3, <2>1, <2>2 DEF MsgOK, Kinds, Listening
  <2> QED BY <1>3, <2>3 DEF MsgOK
<1>6. m = Msg("HP ACK", 0)
  BY <1>4, <1>5 DEF Message, Msg
<1> QED BY <1>1, <1>5, <1>6

\* Whatever reaches a client is an ACK from a high priority thread of the server
\* it chose, so the assert of client_waitHPReply holds (src/client.c:174).
THEOREM AcksComeFromTarget == Spec => []AcksFromTarget
BY AcksFromTargetInv, IInvAlways, PTL

\* A thread is sent nothing, SIM COMPLETE apart, on the communicator it does not
\* listen to: serverMap and server_getPriority agree (src/client.c:290-304,
\* src/server.c:94-99 and 333-349).
THEOREM SentWhereItIsHeard == Spec => []SentWhereHeard
<1>1. IInv => SentWhereHeard
  <2> SUFFICES ASSUME IInv, NEW k \in Comms, NEW p \in Ranks, NEW s \in ServerRanks,
                      k # ServerComm(s),
                      NEW j \in Places(<<k, p, s>>, Kinds \ {"SIM COMPLETE"})
               PROVE  FALSE
    BY DEF SentWhereHeard
  <2>1. PICK m : /\ m = net[<<k, p, s>>][j] /\ m \in Elements(net[<<k, p, s>>])
                 /\ m.kind \in Kinds \ {"SIM COMPLETE"}
    BY DEF Elements, Places
  <2>2. s \in Ranks /\ s \notin Clients
    BY RankKinds
  <2>3. MsgOK(k, p, s, m)
    BY <2>1, <2>2 DEF IInv, MsgInv
  <2>4. ASSUME NEW c \in Clients PROVE targetServerID[c] \in Servers
    BY DEF IInv, TypeOK
  <2>5. ASSUME NEW c \in Clients
        PROVE  /\ s \in HPRanks(targetServerID[c]) => ServerComm(s) = "HP"
               /\ s \in LPRanks(targetServerID[c]) => ServerComm(s) = "LP"
    BY <2>4, ThreadsListen DEF ThreadsFor, Comms
  <2> QED BY <2>1, <2>2, <2>3, <2>5 DEF MsgOK, Kinds, Listening
<1> QED BY <1>1, IInvAlways, PTL

(***************************************************************************)
(* The end of the simulation                                               *)
(***************************************************************************)

\* What a handler sends: nothing, one message, or one to each of many
LEMMA HandlerSends ==
  ASSUME IInv, NEW s \in ServerRanks, NEW p \in Ranks, NEW k \in Comms, NEW m \in Message,
         Handler(s, p, k, m)
  PROVE  \/ net' = Consumed(k, p, s)
         \/ \E d \in Ranks, x \in Message : net' = Post(Consumed(k, p, s), k, s, d, x)
         \/ \E dests \in NetworkTargets(k, s), x \in Message :
              net' = PostAll(Consumed(k, p, s), k, s, dests, x)
<1>0. m.tag \in Slots /\ 0 \in Slots
  BY ZeroIsSlot DEF Message
<1>1. CASE AnswerHPRequest(s, p, k, m)
  BY <1>0, <1>1, MsgType DEF AnswerHPRequest, Kinds
<1>2. CASE SpreadHPRequest(s, p, k, m)
  <2>1. PICK tag \in Slots : tag = getFirstOne(vector[s])
    BY <1>2, GetFirstOneRange DEF SpreadHPRequest
  <2>2. ServerRequest(k, tag) \in Message
    BY <2>1, MsgType DEF ServerRequest, Kinds
  <2> QED BY <1>2, <2>1, <2>2 DEF SpreadHPRequest
<1>3. CASE AbortOnFullVector(s, p, k, m)
  BY <1>3 DEF AbortOnFullVector
<1>4. CASE HandleLPRequest(s, p, k, m)
  <2>1. ServerRequest(k, 0) \in Message
    BY <1>0, MsgType DEF ServerRequest, Kinds
  <2> QED BY <1>4, <2>1 DEF HandleLPRequest
<1>5. CASE HandleServerRequest(s, p, k, m)
  <2>1. Msg("HP ACK", m.tag) \in Message /\ Msg("LP ACK", m.tag) \in Message
    BY <1>0, MsgType DEF Kinds
  <2> QED BY <1>5, <2>1 DEF HandleServerRequest
<1>6. CASE HandleHPAck(s, p, k, m)
  <2>1. Msg("HP ACK", 0) \in Message
    BY <1>0, MsgType DEF Kinds
  <2>2. continuations[s][m.tag] \in Continuation
    BY <1>0 DEF IInv, TypeOK
  <2>3. Replied(s, m.tag).originClientRank \in Ranks
    BY <2>2 DEF Replied, Continuation
  <2> QED BY <1>6, <2>1, <2>3 DEF HandleHPAck
<1>7. CASE HandleLPAck(s, p, k, m)
  BY <1>7 DEF HandleLPAck
<1>8. CASE HandleSimComplete(s, p, k, m)
  BY <1>8 DEF HandleSimComplete
<1> QED BY <1>1, <1>2, <1>3, <1>4, <1>5, <1>6, <1>7, <1>8 DEF Handler

\* What a handler does to the channels from the clients: it takes one message
LEMMA HandlerTakesOne ==
  ASSUME IInv, NEW s \in ServerRanks, NEW p \in Ranks, NEW k \in Comms, NEW m \in Message,
         Arrived(k, p, s), Handler(s, p, k, m),
         NEW ch \in Channels, ch[2] \in Clients
  PROVE  /\ ch = <<k, p, s>> => net'[ch] = Tail(net[ch])
         /\ ch # <<k, p, s>> => net'[ch] = net[ch]
<1> DEFINE n == Consumed(k, p, s)
<1>0. /\ net \in Networks /\ s \in Ranks /\ ch[2] # s
      /\ <<k, p, s>> \in Channels
  BY RankKinds, ChannelTuple DEF IInv, TypeOK, Networks
<1>1. /\ n \in Networks
      /\ ch = <<k, p, s>> => n[ch] = Tail(net[ch])
      /\ ch # <<k, p, s>> => n[ch] = net[ch]
  BY <1>0, ConsumedNet DEF Consumed, Networks
<1> HIDE DEF n
<1>2. CASE net' = n
  BY <1>1, <1>2
<1>3. CASE \E d \in Ranks, x \in Message : net' = Post(n, k, s, d, x)
  <2>1. PICK d \in Ranks, x \in Message : net' = Post(n, k, s, d, x)
    BY <1>3
  <2>2. ch # <<k, s, d>>
    BY <1>0
  <2>3. net'[ch] = n[ch]
    BY <1>1, <2>1, <2>2 DEF Post, Networks
  <2> QED BY <1>1, <2>3
<1>4. CASE \E dests \in NetworkTargets(k, s), x \in Message : net' = PostAll(n, k, s, dests, x)
  <2>1. PICK dests \in NetworkTargets(k, s), x \in Message : net' = PostAll(n, k, s, dests, x)
    BY <1>4
  <2>2. net'[ch] = n[ch]
    BY <1>0, <2>1 DEF PostAll
  <2> QED BY <1>1, <2>2
<1> QED BY <1>2, <1>3, <1>4, HandlerSends DEF n

IsComplete(m) == m.kind = "SIM COMPLETE"

\* SIM COMPLETE is the last message of q, if it is there at all
CompleteLast(q) == \A j \in DOMAIN q : IsComplete(q[j]) => j = Len(q)

\* A client that is not done has sent no SIM COMPLETE, nothing follows one in its
\* channel, and a thread that has received one finds that channel empty for ever
CompleteInv ==
  /\ \A ch \in Channels : ch[2] \in Clients =>
       /\ CompleteLast(net[ch])
       /\ pc[ch[2]] # "done" => \A m \in Elements(net[ch]) : ~IsComplete(m)
  /\ \A s \in ServerRanks : ~logFile_isOpen[s] =>
       \E c \in Clients : pc[c] = "done" /\ net[<<ServerComm(s), c, s>>] = <<>>

LEMMA CompleteTail ==
  ASSUME NEW q \in Seq(Message), q # <<>>, CompleteLast(q)
  PROVE  /\ CompleteLast(Tail(q))
         /\ IsComplete(Head(q)) => Tail(q) = <<>>
<1>1. Len(q) \in Nat /\ Len(q) > 0 /\ DOMAIN q = 1 .. Len(q)
  BY EmptySeq, LenProperties
<1>2. Head(q) = q[1]
  BY <1>1
<1>3. /\ Tail(q) \in Seq(Message) /\ Len(Tail(q)) = Len(q) - 1
      /\ DOMAIN Tail(q) = 1 .. Len(q) - 1
      /\ \A n \in 1 .. Len(q) - 1 : Tail(q)[n] = q[n + 1]
  BY <1>1, HeadTailProperties, LenProperties
<1>4. CompleteLast(Tail(q))
  BY <1>1, <1>3 DEF CompleteLast
<1>5. ASSUME IsComplete(Head(q)) PROVE Tail(q) = <<>>
  <2>1. Len(q) = 1
    BY <1>1, <1>2, <1>5 DEF CompleteLast
  <2> QED BY <1>3, <2>1, EmptySeq
<1> QED BY <1>4, <1>5

LEMMA CompleteAppend ==
  ASSUME NEW q \in Seq(Message), NEW m \in Message, \A x \in Elements(q) : ~IsComplete(x)
  PROVE  CompleteLast(Append(q, m))
<1>1. Len(q) \in Nat /\ DOMAIN q = 1 .. Len(q)
  BY LenProperties
<1>2. /\ Append(q, m) \in Seq(Message) /\ Len(Append(q, m)) = Len(q) + 1
      /\ \A j \in 1 .. Len(q) : Append(q, m)[j] = q[j]
  BY AppendProperties
<1>3. DOMAIN Append(q, m) = 1 .. Len(q) + 1
  BY <1>2, LenProperties
<1> QED BY <1>1, <1>2, <1>3 DEF CompleteLast, Elements

LEMMA CompleteInit == Init => CompleteInv
<1> SUFFICES ASSUME Init PROVE CompleteInv
  OBVIOUS
<1>1. \A ch \in Channels : net[ch] = <<>>
  BY DEF Init
<1>2. \A s \in ServerRanks : logFile_isOpen[s]
  BY DEF Init, ServerInit
<1> QED BY <1>1, <1>2 DEF CompleteInv, CompleteLast, Elements

\* A client that is not done appends one message to some of its channels
LEMMA CompleteClient ==
  ASSUME IInv, CompleteInv, NEW c \in Clients, pc[c] # "done", NEW m \in Message,
         \A ch \in Channels : \/ net'[ch] = net[ch]
                              \/ ch[2] = c /\ net'[ch] = Append(net[ch], m),
         IsComplete(m) => pc'[c] = "done",
         \A b \in Clients \ {c} : pc'[b] = pc[b],
         UNCHANGED logFile_isOpen
  PROVE  CompleteInv'
<1>1. ASSUME NEW ch \in Channels, ch[2] \in Clients
      PROVE  /\ CompleteLast(net'[ch])
             /\ pc'[ch[2]] # "done" => \A x \in Elements(net'[ch]) : ~IsComplete(x)
  <2>0. /\ net[ch] \in Seq(Message)
        /\ CompleteLast(net[ch])
        /\ pc[ch[2]] # "done" => \A x \in Elements(net[ch]) : ~IsComplete(x)
    BY <1>1 DEF CompleteInv, IInv, TypeOK
  <2>1. CASE net'[ch] = net[ch]
    <3>1. pc'[ch[2]] # "done" => pc[ch[2]] # "done"
      BY <1>1
    <3> QED BY <2>0, <2>1, <3>1
  <2>2. CASE ch[2] = c /\ net'[ch] = Append(net[ch], m)
    <3>1. \A x \in Elements(net[ch]) : ~IsComplete(x)
      BY <2>0, <2>2
    <3>2. CompleteLast(Append(net[ch], m))
      BY <2>0, <3>1, CompleteAppend
    <3>3. Elements(Append(net[ch], m)) = Elements(net[ch]) \union {m}
      BY <2>0, AppendOne
    <3>4. pc'[ch[2]] # "done" => ~IsComplete(m)
      BY <2>2
    <3> QED BY <2>2, <3>1, <3>2, <3>3, <3>4
  <2> QED BY <2>1, <2>2
<1>2. ASSUME NEW s \in ServerRanks, ~logFile_isOpen'[s]
      PROVE  \E b \in Clients : pc'[b] = "done" /\ net'[<<ServerComm(s), b, s>>] = <<>>
  <2>1. PICK b \in Clients : pc[b] = "done" /\ net[<<ServerComm(s), b, s>>] = <<>>
    BY <1>2 DEF CompleteInv
  <2>2. b # c
    BY <2>1
  <2> DEFINE ch == <<ServerComm(s), b, s>>
  <2>3. ch \in Channels /\ ch[2] = b
    BY RankKinds, ChannelTuple DEF ServerComm, Comms
  <2> HIDE DEF ch
  <2>4. net'[ch] = net[ch]
    BY <2>2, <2>3
  <2> QED BY <2>1, <2>2, <2>4 DEF ch
<1> QED BY <1>1, <1>2 DEF CompleteInv

\* A step that receives at most, from the channel chan, and keeps the clients
LEMMA CompleteReceive ==
  ASSUME IInv, CompleteInv, NEW k \in Comms, NEW p \in Ranks, NEW d \in Ranks, Arrived(k, p, d),
         \A ch \in Channels : ch[2] \in Clients =>
           /\ ch = <<k, p, d>> => net'[ch] = Tail(net[ch])
           /\ ch # <<k, p, d>> => net'[ch] = net[ch],
         \A c \in Clients : pc'[c] = "done" <=> pc[c] = "done",
         \A s \in ServerRanks : \/ logFile_isOpen'[s] = logFile_isOpen[s]
                                \/ /\ s = d /\ k = ServerComm(s) /\ p \in Clients
                                   /\ IsComplete(Head(net[<<k, p, d>>]))
  PROVE  CompleteInv'
<1> DEFINE from == <<k, p, d>>
<1>1. from \in Channels /\ net[from] # <<>> /\ net[from] \in Seq(Message) /\ from[2] = p
  BY ChannelTuple DEF Arrived, IInv, TypeOK
<1>2. \A ch \in Channels : ch[2] \in Clients =>
           /\ ch = from => net'[ch] = Tail(net[ch])
           /\ ch # from => net'[ch] = net[ch]
  OBVIOUS
<1>3. \A s \in ServerRanks : \/ logFile_isOpen'[s] = logFile_isOpen[s]
                             \/ from = <<ServerComm(s), p, s>> /\ p \in Clients /\ IsComplete(Head(net[from]))
  OBVIOUS
<1>4. p \in Clients => CompleteLast(net[from])
  BY <1>1 DEF CompleteInv
<1> HIDE DEF from
<1>5. ASSUME NEW ch \in Channels, ch[2] \in Clients
      PROVE  /\ CompleteLast(net'[ch])
             /\ pc'[ch[2]] # "done" => \A x \in Elements(net'[ch]) : ~IsComplete(x)
  <2>0. /\ net[ch] \in Seq(Message)
        /\ CompleteLast(net[ch])
        /\ pc'[ch[2]] # "done" => \A x \in Elements(net[ch]) : ~IsComplete(x)
    BY <1>5 DEF CompleteInv, IInv, TypeOK
  <2>1. CASE ch # from
    BY <1>2, <1>5, <2>0, <2>1
  <2>2. CASE ch = from
    <3>1. net'[ch] = Tail(net[ch])
      BY <1>2, <1>5, <2>2
    <3>2. CompleteLast(Tail(net[ch]))
      BY <1>1, <2>0, <2>2, CompleteTail
    <3>3. Elements(Tail(net[ch])) \subseteq Elements(net[ch])
      BY <1>1, <2>2, HeadTail
    <3> QED BY <2>0, <3>1, <3>2, <3>3
  <2> QED BY <2>1, <2>2
<1>6. ASSUME NEW s \in ServerRanks, ~logFile_isOpen'[s]
      PROVE  \E c \in Clients : pc'[c] = "done" /\ net'[<<ServerComm(s), c, s>>] = <<>>
  <2>1. CASE logFile_isOpen'[s] = logFile_isOpen[s]
    <3>1. PICK c \in Clients : pc[c] = "done" /\ net[<<ServerComm(s), c, s>>] = <<>>
      BY <1>6, <2>1 DEF CompleteInv
    <3> DEFINE ch == <<ServerComm(s), c, s>>
    <3>2. ch \in Channels /\ ch[2] = c
      BY RankKinds, ChannelTuple DEF ServerComm, Comms
    <3>3. net[ch] = <<>>
      BY <3>1
    <3> HIDE DEF ch
    <3>4. net'[ch] = <<>>
      BY <1>1, <1>2, <3>2, <3>3
    <3> QED BY <3>1, <3>4 DEF ch
  <2>2. CASE from = <<ServerComm(s), p, s>> /\ p \in Clients /\ IsComplete(Head(net[from]))
    <3>1. net'[from] = <<>>
      BY <1>1, <1>2, <1>4, <2>2, CompleteTail
    <3>2. Head(net[from]) \in Elements(net[from])
      BY <1>1, HeadTail
    <3>3. pc[p] = "done"
      BY <1>1, <2>2, <3>2 DEF CompleteInv
    <3> QED BY <2>2, <3>1, <3>3
  <2> QED BY <1>3, <2>1, <2>2
<1> QED BY <1>5, <1>6 DEF CompleteInv

LEMMA CompleteNext == IInv /\ CompleteInv /\ [Next]_vars => CompleteInv'
<1> SUFFICES ASSUME IInv, CompleteInv, [Next]_vars PROVE CompleteInv'
  OBVIOUS
<1>0. net \in Networks /\ pc \in [Clients -> {"LP", "HP", "wait", "done"}]
  BY DEF IInv, TypeOK, Networks
<1>1. CASE UNCHANGED vars
  BY <1>1 DEF CompleteInv, vars, clientVars, serverVars
<1>2. ASSUME NEW c \in Clients, ClientStep(c) \/ Signal(c) PROVE CompleteInv'
  <2>1. CASE SendLPReq(c) \/ SendHPReq(c)
    <3>1. PICK k \in Comms, d \in ServerRanks, m \in Message :
             net' = Post(net, k, c, d, m) /\ ~IsComplete(m)
      <4>1. /\ Msg("LP REQUEST", 0) \in Message /\ ~IsComplete(Msg("LP REQUEST", 0))
            /\ Msg("HP REQUEST", 0) \in Message /\ ~IsComplete(Msg("HP REQUEST", 0))
        BY MsgType, ZeroIsSlot DEF Kinds, IsComplete, Msg
      <4>2. targetServerID[c] \in Servers /\ "LP" \in Comms /\ "HP" \in Comms
        BY DEF IInv, TypeOK, Comms
      <4> QED BY <2>1, <4>1, <4>2, RankKinds DEF SendLPReq, SendHPReq
    <3>2. \A ch \in Channels : \/ net'[ch] = net[ch]
                               \/ ch[2] = c /\ net'[ch] = Append(net[ch], m)
      <4> TAKE ch \in Channels
      <4>1. <<k, c, d>>[2] = c
        OBVIOUS
      <4>2. CASE ch = <<k, c, d>>
        BY <1>0, <3>1, <4>1, <4>2 DEF Post, Networks
      <4>3. CASE ch # <<k, c, d>>
        BY <1>0, <3>1, <4>3 DEF Post, Networks
      <4> QED BY <4>2, <4>3
    <3>3. pc[c] # "done" /\ (\A b \in Clients \ {c} : pc'[b] = pc[b]) /\ UNCHANGED logFile_isOpen
      BY <1>0, <2>1 DEF SendLPReq, SendHPReq, serverVars
    <3> QED BY <3>1, <3>2, <3>3, CompleteClient
  <2>2. CASE SkipLPReq(c) \/ SkipHPReq(c) \/ Signal(c)
    <3>1. UNCHANGED <<net, logFile_isOpen>> /\ \A b \in Clients : pc'[b] = "done" <=> pc[b] = "done"
      BY <1>0, <2>2 DEF SkipLPReq, SkipHPReq, Signal, serverVars
    <3> QED BY <3>1 DEF CompleteInv
  <2>3. CASE WaitHPReply(c)
    <3>1. PICK k \in Comms, s \in Ranks : k = "HP" /\ Arrived(k, s, c) /\ net' = Consumed(k, s, c)
      BY <2>3 DEF WaitHPReply, Comms
    <3>2. c \in Ranks /\ <<k, s, c>> \in Channels
      BY RankKinds, ChannelTuple
    <3>3. \A ch \in Channels : /\ ch = <<k, s, c>> => net'[ch] = Tail(net[ch])
                               /\ ch # <<k, s, c>> => net'[ch] = net[ch]
      BY <1>0, <3>1 DEF Consumed, Networks
    <3>4. /\ \A b \in Clients : pc'[b] = "done" <=> pc[b] = "done"
          /\ UNCHANGED logFile_isOpen
      BY <1>0, <2>3 DEF WaitHPReply, serverVars
    <3> QED BY <3>1, <3>2, <3>3, <3>4, CompleteReceive
  <2>4. CASE Finish(c)
    <3>1. PICK m \in Message : m = Msg("SIM COMPLETE", 0)
      BY MsgType, ZeroIsSlot DEF Kinds
    <3>2. \A ch \in Channels : \/ net'[ch] = net[ch]
                               \/ ch[2] = c /\ net'[ch] = Append(net[ch], m)
      BY <2>4, <3>1 DEF Finish
    <3>3. /\ pc[c] # "done" /\ pc'[c] = "done" /\ (\A b \in Clients \ {c} : pc'[b] = pc[b])
          /\ UNCHANGED logFile_isOpen
      BY <1>0, <2>4 DEF Finish, serverVars
    <3> QED BY <3>2, <3>3, CompleteClient
  <2> QED BY <1>2, <2>1, <2>2, <2>3, <2>4 DEF ClientStep
<1>3. ASSUME NEW s \in ServerRanks, ServerStep(s) PROVE CompleteInv'
  <2> DEFINE k == ServerComm(s)
  <2>1. PICK p \in Ranks : Arrived(k, p, s) /\ Handler(s, p, k, Head(net[<<k, p, s>>]))
    BY <1>3 DEF ServerStep, Handler
  <2>2. k \in Comms /\ s \in Ranks
    BY RankKinds DEF ServerComm, Comms
  <2>3. PICK m \in Message : m = Head(net[<<k, p, s>>]) /\ MsgOK(k, p, s, m)
    BY <2>1, <2>2, Received
  <2>4. k = ServerComm(s)
    OBVIOUS
  <2> HIDE DEF k
  <2>5. \A ch \in Channels : ch[2] \in Clients =>
           /\ ch = <<k, p, s>> => net'[ch] = Tail(net[ch])
           /\ ch # <<k, p, s>> => net'[ch] = net[ch]
    BY <2>1, <2>2, <2>3, HandlerTakesOne
  <2>6. /\ UNCHANGED pc
        /\ \/ UNCHANGED logFile_isOpen
           \/ IsComplete(m) /\ logFile_isOpen' = [logFile_isOpen EXCEPT ![s] = FALSE]
    BY <2>1, <2>3 DEF Handler, AnswerHPRequest, SpreadHPRequest, AbortOnFullVector, HandleLPRequest,
         HandleServerRequest, HandleHPAck, HandleLPAck, HandleSimComplete, writeServerLog,
         clientVars, serverVars, IsComplete
  <2>7. IsComplete(m) => p \in Clients
    BY <2>3 DEF MsgOK, IsComplete
  <2>8. \A r \in ServerRanks : \/ logFile_isOpen'[r] = logFile_isOpen[r]
                               \/ /\ r = s /\ k = ServerComm(r) /\ p \in Clients
                                  /\ IsComplete(Head(net[<<k, p, s>>]))
    <3>1. logFile_isOpen \in [ServerRanks -> BOOLEAN]
      BY DEF IInv, TypeOK
    <3> QED BY <2>3, <2>4, <2>6, <2>7, <3>1
  <2> QED BY <2>1, <2>2, <2>5, <2>6, <2>8, CompleteReceive
<1> QED BY <1>1, <1>2, <1>3 DEF Next, Quiescent

\* A thread writes its log only after it has counted every request of a client
\* that is done: nothing overtakes, and nothing follows, SIM COMPLETE
\* (src/client.c:104-109, src/server.c:230-233).
THEOREM LogsAfterRequests == Spec => []LogAfterRequests
<1>1. IInv /\ SentWhereHeard /\ CompleteInv => LogAfterRequests
  <2> SUFFICES ASSUME IInv, SentWhereHeard, CompleteInv,
                      NEW s \in ServerRanks, ~logFile_isOpen[s]
               PROVE  \E c \in Clients :
                        /\ pc[c] = "done"
                        /\ \A k \in Comms : Places(<<k, c, s>>, {"HP REQUEST", "LP REQUEST"}) = {}
    BY DEF LogAfterRequests
  <2>1. PICK c \in Clients : pc[c] = "done" /\ net[<<ServerComm(s), c, s>>] = <<>>
    BY DEF CompleteInv
  <2>2. c \in Ranks
    BY RankKinds
  <2>3. ASSUME NEW k \in Comms PROVE Places(<<k, c, s>>, {"HP REQUEST", "LP REQUEST"}) = {}
    <3>1. CASE k = ServerComm(s)
      <4>1. net[<<k, c, s>>] = <<>>
        BY <2>1, <3>1, Zenon
      <4>2. DOMAIN net[<<k, c, s>>] = {}
        BY <4>1
      <4> QED BY <4>2 DEF Places
    <3>2. CASE k # ServerComm(s)
      <4>1. Places(<<k, c, s>>, Kinds \ {"SIM COMPLETE"}) = {}
        BY <2>2, <3>2 DEF SentWhereHeard
      <4> QED BY <4>1 DEF Places, Kinds
    <3> QED BY <3>1, <3>2
  <2> QED BY <2>1, <2>3
<1>2. Init => CompleteInv
  BY CompleteInit
<1>3. IInv /\ CompleteInv /\ [Next]_vars => CompleteInv'
  BY CompleteNext
<1>4. Spec => []SentWhereHeard
  BY SentWhereItIsHeard
<1> QED BY <1>1, <1>2, <1>3, <1>4, IInvAlways, PTL DEF Spec

-------------------------------------------------------------------------------
(* Counting messages                                                         *)

\* A filter names, for every channel, the messages to be counted there
Filters == [Channels -> SUBSET Message]

\* The places of the channels that hold a message of the filter
Pending(n, F) ==
  UNION {{<<ch, j>> : j \in {x \in DOMAIN n[ch] : n[ch][x] \in F[ch]}} : ch \in Channels}

LEMMA SameSize ==
  ASSUME NEW S, NEW T, IsFiniteSet(S), NEW f \in [S -> T],
         \A x, y \in S : f[x] = f[y] => x = y,
         \A z \in T : \E x \in S : f[x] = z
  PROVE  IsFiniteSet(T) /\ Cardinality(T) = Cardinality(S)
<1>1. f \in Bijection(S, T)
  BY Fun_IsBij
<1>2. ExistsBijection(S, T)
  BY <1>1 DEF ExistsBijection
<1> QED BY <1>2, FS_Bijection

\* f counts the elements of S
Numbers(f, S) ==
  /\ f \in [1 .. Cardinality(S) -> S]
  /\ \A i, j \in 1 .. Cardinality(S) : f[i] = f[j] => i = j
  /\ \A x \in S : \E i \in 1 .. Cardinality(S) : f[i] = x

LEMMA Numbering ==
  ASSUME NEW S, IsFiniteSet(S)
  PROVE  \E f : Numbers(f, S)
<1> DEFINE I == 1 .. Cardinality(S)
<1>1. ExistsBijection(I, S)
  BY FS_CardinalityType
<1> HIDE DEF I
<1>2. PICK f \in Bijection(I, S) : TRUE
  BY <1>1 DEF ExistsBijection
<1>3. /\ f \in [I -> S]
      /\ \A i, j \in I : f[i] = f[j] => i = j
      /\ \A x \in S : \E i \in I : f[i] = x
  BY Fun_BijectionProperties
<1> QED BY <1>3 DEF Numbers, I

LEMMA FiniteChannels ==
  IsFiniteSet(Clients) /\ IsFiniteSet(ServerRanks) /\ IsFiniteSet(Ranks) /\ IsFiniteSet(Channels)
<1>1. IsFiniteSet(Ranks)
  BY FS_Interval, ArgumentsAssumption DEF Ranks
<1>2. IsFiniteSet(Clients) /\ IsFiniteSet(ServerRanks)
  BY <1>1, RankKinds, FS_Subset
<1>3. IsFiniteSet(Comms)
  <2>1. Comms = ({} \union {"HP"}) \union {"LP"}
    BY DEF Comms
  <2> QED BY <2>1, FS_EmptySet, FS_AddElement
<1>4. IsFiniteSet(Ranks \X Ranks)
  BY <1>1, FS_Product
<1>5. IsFiniteSet(Comms \X (Ranks \X Ranks))
  BY <1>3, <1>4, FS_Product
<1> DEFINE f == [x \in Comms \X (Ranks \X Ranks) |-> <<x[1], x[2][1], x[2][2]>>]
<1>6. f \in [Comms \X (Ranks \X Ranks) -> Channels]
  BY DEF Channels
<1>7. \A x, y \in Comms \X (Ranks \X Ranks) : f[x] = f[y] => x = y
  OBVIOUS
<1>8. \A z \in Channels : \E x \in Comms \X (Ranks \X Ranks) : f[x] = z
  <2> SUFFICES ASSUME NEW z \in Channels PROVE \E x \in Comms \X (Ranks \X Ranks) : f[x] = z
    OBVIOUS
  <2>1. z[1] \in Comms /\ z[2] \in Ranks /\ z[3] \in Ranks /\ z = <<z[1], z[2], z[3]>>
    BY DEF Channels
  <2>2. <<z[1], <<z[2], z[3]>>>> \in Comms \X (Ranks \X Ranks)
    BY <2>1
  <2>3. f[<<z[1], <<z[2], z[3]>>>>] = z
    BY <2>1, <2>2
  <2> QED BY <2>2, <2>3
<1> HIDE DEF f
<1>9. IsFiniteSet(Channels)
  BY <1>5, <1>6, <1>7, <1>8, SameSize
<1> QED BY <1>1, <1>2, <1>9

LEMMA PendingIs ==
  ASSUME NEW n, NEW F, NEW w \in Pending(n, F)
  PROVE  \E ch \in Channels : \E j \in DOMAIN n[ch] : n[ch][j] \in F[ch] /\ w = <<ch, j>>
BY DEF Pending

LEMMA PendingAt ==
  ASSUME NEW n, NEW F, NEW ch \in Channels, NEW j
  PROVE  <<ch, j>> \in Pending(n, F) <=> j \in DOMAIN n[ch] /\ n[ch][j] \in F[ch]
BY DEF Pending

LEMMA PendingFinite ==
  ASSUME NEW n \in Networks, NEW F
  PROVE  IsFiniteSet(Pending(n, F)) /\ Cardinality(Pending(n, F)) \in Nat
<1> DEFINE In(ch) == {<<ch, j>> : j \in {x \in DOMAIN n[ch] : n[ch][x] \in F[ch]}}
<1>1. ASSUME NEW ch \in Channels PROVE IsFiniteSet(In(ch))
  <2> DEFINE J == {x \in DOMAIN n[ch] : n[ch][x] \in F[ch]}
             f == [j \in J |-> <<ch, j>>]
  <2>1. Len(n[ch]) \in Nat /\ DOMAIN n[ch] = 1 .. Len(n[ch])
    BY LenProperties DEF Networks
  <2>2. IsFiniteSet(DOMAIN n[ch])
    BY <2>1, FS_Interval
  <2>3. IsFiniteSet(J)
    BY <2>2, FS_Subset
  <2>4. f \in [J -> In(ch)]
    OBVIOUS
  <2>5. \A x, y \in J : f[x] = f[y] => x = y
    OBVIOUS
  <2>6. \A z \in In(ch) : \E x \in J : f[x] = z
    OBVIOUS
  <2> HIDE DEF f, J, In
  <2> QED BY <2>3, <2>4, <2>5, <2>6, SameSize
<1> DEFINE all == {In(ch) : ch \in Channels}
           g == [ch \in Channels |-> In(ch)]
<1>2. IsFiniteSet(all)
  <2>1. g \in [Channels -> all] /\ \A z \in all : \E x \in Channels : g[x] = z
    OBVIOUS
  <2>2. g \in Surjection(Channels, all)
    BY <2>1, Fun_IsSurj
  <2> QED BY <2>2, FiniteChannels, FS_Surjection
<1>3. \A T \in all : IsFiniteSet(T)
  BY <1>1
<1>4. Pending(n, F) = UNION all
  BY DEF Pending
<1> HIDE DEF all
<1> QED BY <1>2, <1>3, <1>4, FS_UNION, FS_CardinalityType

\* A message received is pending no longer
LEMMA PendingTail ==
  ASSUME NEW n \in Networks, NEW n2 \in Networks, NEW F, NEW ch \in Channels, n[ch] # <<>>,
         n2[ch] = Tail(n[ch]), \A c2 \in Channels \ {ch} : n2[c2] = n[c2]
  PROVE  Cardinality(Pending(n2, F))
           = Cardinality(Pending(n, F)) - (IF Head(n[ch]) \in F[ch] THEN 1 ELSE 0)
<1> DEFINE first == <<ch, 1>>
           Rest == Pending(n, F) \ {first}
           f == [w \in Pending(n2, F) |-> IF w[1] = ch THEN <<ch, w[2] + 1>> ELSE w]
<1>1. /\ Len(n[ch]) \in Nat /\ Len(n[ch]) > 0 /\ DOMAIN n[ch] = 1 .. Len(n[ch])
      /\ Head(n[ch]) = n[ch][1]
      /\ DOMAIN Tail(n[ch]) = 1 .. Len(n[ch]) - 1
      /\ \A j \in 1 .. Len(n[ch]) - 1 : Tail(n[ch])[j] = n[ch][j + 1]
  <2>1. n[ch] \in Seq(Message)
    BY DEF Networks
  <2>2. Len(n[ch]) \in Nat /\ Len(n[ch]) > 0 /\ DOMAIN n[ch] = 1 .. Len(n[ch])
    BY <2>1, EmptySeq, LenProperties
  <2> QED BY <2>1, <2>2, HeadTailProperties
<1>2. n2[ch] = Tail(n[ch]) /\ \A c2 \in Channels : c2 # ch => n2[c2] = n[c2]
  OBVIOUS
<1>3. first \in Pending(n, F) <=> Head(n[ch]) \in F[ch]
  <2>1. 1 \in DOMAIN n[ch] /\ n[ch][1] = Head(n[ch])
    BY <1>1
  <2>2. <<ch, 1>> \in Pending(n, F) <=> 1 \in DOMAIN n[ch] /\ n[ch][1] \in F[ch]
    BY PendingAt
  <2> QED BY <2>1, <2>2
<1>4. IsFiniteSet(Rest)
      /\ Cardinality(Rest) = Cardinality(Pending(n, F)) - (IF Head(n[ch]) \in F[ch] THEN 1 ELSE 0)
  <2>1. IsFiniteSet(Pending(n, F)) /\ Cardinality(Pending(n, F)) \in Nat
    BY PendingFinite
  <2> QED BY <1>3, <2>1, FS_RemoveElement
<1>5. ASSUME NEW w \in Pending(n2, F)
      PROVE  \E c2 \in Channels, j \in Nat \ {0} :
               /\ w = <<c2, j>> /\ w[1] = c2 /\ w[2] = j
               /\ f[w] = IF c2 = ch THEN <<ch, j + 1>> ELSE <<c2, j>>
               /\ f[w] \in Rest
  <2> HIDE DEF f, Rest
  <2>1. PICK c2 \in Channels : \E j \in DOMAIN n2[c2] : n2[c2][j] \in F[c2] /\ w = <<c2, j>>
    BY PendingIs
  <2>2. PICK j \in DOMAIN n2[c2] : n2[c2][j] \in F[c2] /\ w = <<c2, j>>
    BY <2>1
  <2>3. j \in Nat \ {0}
    <3>1. n2[c2] \in Seq(Message)
      BY DEF Networks
    <3> QED BY <3>1, LenProperties
  <2>4. f[w] = IF c2 = ch THEN <<ch, j + 1>> ELSE <<c2, j>>
    BY <2>2 DEF f
  <2>5. f[w] \in Rest
    <3>1. CASE c2 = ch
      <4>1. j \in 1 .. Len(n[ch]) - 1 /\ n[ch][j + 1] \in F[ch]
        BY <1>1, <1>2, <2>2, <3>1
      <4>2. j + 1 \in DOMAIN n[ch] /\ j + 1 # 1
        BY <1>1, <4>1
      <4>3. <<ch, j + 1>> \in Pending(n, F)
        BY <4>1, <4>2, PendingAt
      <4>4. <<ch, j + 1>> # first
        BY <4>2
      <4> QED BY <2>4, <3>1, <4>3, <4>4 DEF Rest
    <3>2. CASE c2 # ch
      <4>1. <<c2, j>> \in Pending(n, F)
        BY <1>2, <2>2, <3>2, PendingAt
      <4>2. <<c2, j>> # first
        BY <3>2
      <4> QED BY <2>4, <3>2, <4>1, <4>2 DEF Rest
    <3> QED BY <3>1, <3>2
  <2> QED BY <2>2, <2>3, <2>4, <2>5
<1>6. \A z \in Rest : \E w \in Pending(n2, F) : f[w] = z
  <2> SUFFICES ASSUME NEW z \in Rest PROVE \E w \in Pending(n2, F) : f[w] = z
    OBVIOUS
  <2>1. PICK c2 \in Channels : \E j \in DOMAIN n[c2] : n[c2][j] \in F[c2] /\ z = <<c2, j>>
    BY PendingIs
  <2>2. PICK j \in DOMAIN n[c2] : n[c2][j] \in F[c2] /\ z = <<c2, j>>
    BY <2>1
  <2>3. CASE c2 = ch
    <3>1. j # 1
      BY <2>2, <2>3
    <3>2. j \in 1 .. Len(n[ch])
      BY <1>1, <2>2, <2>3
    <3>3. j - 1 \in 1 .. Len(n[ch]) - 1 /\ (j - 1) + 1 = j
      BY <1>1, <3>1, <3>2
    <3>4. n2[ch][j - 1] = n[ch][j]
      BY <1>1, <1>2, <3>3
    <3>5. <<ch, j - 1>> \in Pending(n2, F)
      BY <1>1, <1>2, <2>2, <2>3, <3>3, <3>4, PendingAt
    <3>6. f[<<ch, j - 1>>] = <<ch, j>>
      BY <3>3, <3>5
    <3> QED BY <2>2, <2>3, <3>5, <3>6
  <2>4. CASE c2 # ch
    <3>1. z \in Pending(n2, F)
      BY <1>2, <2>2, <2>4, PendingAt
    <3>2. f[z] = z
      BY <2>2, <2>4, <3>1
    <3> QED BY <3>1, <3>2
  <2> QED BY <2>3, <2>4
<1>7. f \in [Pending(n2, F) -> Rest]
  BY <1>5
<1>8. \A v, w \in Pending(n2, F) : f[v] = f[w] => v = w
  <2> HIDE DEF f, Rest
  <2> TAKE v, w \in Pending(n2, F)
  <2>1. PICK c1 \in Channels, i \in Nat \ {0} :
          v = <<c1, i>> /\ f[v] = IF c1 = ch THEN <<ch, i + 1>> ELSE <<c1, i>>
    BY <1>5
  <2>2. PICK c2 \in Channels, j \in Nat \ {0} :
          w = <<c2, j>> /\ f[w] = IF c2 = ch THEN <<ch, j + 1>> ELSE <<c2, j>>
    BY <1>5
  <2> QED BY <2>1, <2>2
<1> HIDE DEF f, Rest
<1>9. IsFiniteSet(Pending(n2, F))
  BY PendingFinite
<1>10. Cardinality(Rest) = Cardinality(Pending(n2, F))
  BY <1>6, <1>7, <1>8, <1>9, SameSize
<1> QED BY <1>4, <1>10

\* The places that n2 has and n has not
Fresh(n, n2, F) == Pending(n2, F) \ Pending(n, F)

\* Channels that only grow keep what is pending, and add what is fresh
Extends(n, n2) ==
  \A ch \in Channels : /\ Len(n[ch]) <= Len(n2[ch])
                       /\ \A j \in 1 .. Len(n[ch]) : n2[ch][j] = n[ch][j]

LEMMA PendingExtends ==
  ASSUME NEW n \in Networks, NEW n2 \in Networks, NEW F, Extends(n, n2)
  PROVE  /\ IsFiniteSet(Fresh(n, n2, F)) /\ Cardinality(Fresh(n, n2, F)) \in Nat
         /\ Cardinality(Pending(n2, F)) = Cardinality(Pending(n, F)) + Cardinality(Fresh(n, n2, F))
         /\ \A w \in Fresh(n, n2, F) : \E ch \in Channels : \E j \in DOMAIN n2[ch] :
              n2[ch][j] \in F[ch] /\ j > Len(n[ch]) /\ w = <<ch, j>>
         /\ \A ch \in Channels : \A j \in DOMAIN n2[ch] :
              n2[ch][j] \in F[ch] /\ j > Len(n[ch]) => <<ch, j>> \in Fresh(n, n2, F)
<1>0. \A ch \in Channels : /\ Len(n[ch]) \in Nat /\ DOMAIN n[ch] = 1 .. Len(n[ch])
                           /\ Len(n2[ch]) \in Nat /\ DOMAIN n2[ch] = 1 .. Len(n2[ch])
  BY LenProperties DEF Networks
<1>1. ASSUME NEW w \in Pending(n, F) PROVE w \in Pending(n2, F)
  <2>1. PICK ch \in Channels : \E j \in DOMAIN n[ch] : n[ch][j] \in F[ch] /\ w = <<ch, j>>
    BY PendingIs
  <2>2. PICK j \in DOMAIN n[ch] : n[ch][j] \in F[ch] /\ w = <<ch, j>>
    BY <2>1
  <2>3. j \in DOMAIN n2[ch] /\ n2[ch][j] \in F[ch]
    BY <1>0, <2>2 DEF Extends
  <2> QED BY <2>2, <2>3, PendingAt
<1>2. Pending(n2, F) \intersect Pending(n, F) = Pending(n, F)
  BY <1>1
<1>3. /\ IsFiniteSet(Pending(n, F)) /\ Cardinality(Pending(n, F)) \in Nat
      /\ IsFiniteSet(Pending(n2, F)) /\ Cardinality(Pending(n2, F)) \in Nat
  BY PendingFinite
<1>4. /\ IsFiniteSet(Fresh(n, n2, F))
      /\ Cardinality(Fresh(n, n2, F)) = Cardinality(Pending(n2, F)) - Cardinality(Pending(n, F))
  BY <1>2, <1>3, FS_Difference DEF Fresh
<1>5. Cardinality(Fresh(n, n2, F)) \in Nat
  BY <1>4, FS_CardinalityType
<1>6. Cardinality(Pending(n2, F)) = Cardinality(Pending(n, F)) + Cardinality(Fresh(n, n2, F))
  BY <1>3, <1>4, <1>5
<1>7. ASSUME NEW w \in Fresh(n, n2, F)
      PROVE  \E ch \in Channels : \E j \in DOMAIN n2[ch] :
               n2[ch][j] \in F[ch] /\ j > Len(n[ch]) /\ w = <<ch, j>>
  <2>0. w \in Pending(n2, F) /\ w \notin Pending(n, F)
    BY DEF Fresh
  <2>1. PICK ch \in Channels : \E j \in DOMAIN n2[ch] : n2[ch][j] \in F[ch] /\ w = <<ch, j>>
    BY <2>0, PendingIs
  <2>2. PICK j \in DOMAIN n2[ch] : n2[ch][j] \in F[ch] /\ w = <<ch, j>>
    BY <2>1
  <2>3. ASSUME j \in DOMAIN n[ch] PROVE FALSE
    <3>1. n[ch][j] \in F[ch]
      BY <1>0, <2>2, <2>3 DEF Extends
    <3> QED BY <2>0, <2>2, <2>3, <3>1, PendingAt
  <2>4. j > Len(n[ch])
    BY <1>0, <2>3
  <2> QED BY <2>2, <2>4
<1>8. ASSUME NEW ch \in Channels, NEW j \in DOMAIN n2[ch], n2[ch][j] \in F[ch], j > Len(n[ch])
      PROVE  <<ch, j>> \in Fresh(n, n2, F)
  <2>1. <<ch, j>> \in Pending(n2, F)
    BY <1>8, PendingAt
  <2>2. j \notin DOMAIN n[ch]
    BY <1>0, <1>8
  <2>3. <<ch, j>> \notin Pending(n, F)
    BY <2>2, PendingAt
  <2> QED BY <2>1, <2>3 DEF Fresh
<1> QED BY <1>4, <1>5, <1>6, <1>7, <1>8

LEMMA PendingPost ==
  ASSUME NEW n \in Networks, NEW k \in Comms, NEW s \in Ranks, NEW d \in Ranks, NEW m \in Message,
         NEW F
  PROVE  Cardinality(Pending(Post(n, k, s, d, m), F))
           = Cardinality(Pending(n, F)) + (IF m \in F[<<k, s, d>>] THEN 1 ELSE 0)
<1> DEFINE n2 == Post(n, k, s, d, m)
           at == <<k, s, d>>
<1>1. at \in Channels
  BY ChannelTuple
<1>2. /\ n[at] \in Seq(Message)
      /\ n2[at] = Append(n[at], m)
      /\ \A c2 \in Channels : c2 # at => n2[c2] = n[c2]
  BY <1>1 DEF Post, Networks
<1>3. n2 \in Networks
  BY PostNet DEF Adds
<1>4. /\ Len(n[at]) \in Nat /\ DOMAIN n2[at] = 1 .. Len(n[at]) + 1 /\ Len(n2[at]) = Len(n[at]) + 1
      /\ \A j \in 1 .. Len(n[at]) : n2[at][j] = n[at][j]
      /\ n2[at][Len(n[at]) + 1] = m
  BY <1>2, AppendProperties, LenProperties
<1> HIDE DEF n2, at
<1>5. \A ch \in Channels : Len(n[ch]) \in Nat /\ DOMAIN n[ch] = 1 .. Len(n[ch])
  BY LenProperties DEF Networks
<1>6. Extends(n, n2)
  BY <1>1, <1>2, <1>4, <1>5 DEF Extends
<1>7. \A w \in Fresh(n, n2, F) : w = <<at, Len(n[at]) + 1>> /\ m \in F[at]
  <2> SUFFICES ASSUME NEW w \in Fresh(n, n2, F)
               PROVE  w = <<at, Len(n[at]) + 1>> /\ m \in F[at]
    OBVIOUS
  <2>1. PICK ch \in Channels : \E j \in DOMAIN n2[ch] :
               n2[ch][j] \in F[ch] /\ j > Len(n[ch]) /\ w = <<ch, j>>
    BY <1>3, <1>6, PendingExtends
  <2>2. PICK j \in DOMAIN n2[ch] : n2[ch][j] \in F[ch] /\ j > Len(n[ch]) /\ w = <<ch, j>>
    BY <2>1
  <2>3. ch = at
    BY <1>2, <1>5, <2>2
  <2>4. j = Len(n[at]) + 1
    BY <1>4, <2>2, <2>3
  <2> QED BY <1>4, <2>2, <2>3, <2>4
<1>8. m \in F[at] => <<at, Len(n[at]) + 1>> \in Fresh(n, n2, F)
  <2> SUFFICES ASSUME m \in F[at] PROVE <<at, Len(n[at]) + 1>> \in Fresh(n, n2, F)
    OBVIOUS
  <2> DEFINE j == Len(n[at]) + 1
  <2>1. j \in DOMAIN n2[at] /\ n2[at][j] \in F[at] /\ j > Len(n[at])
    BY <1>4
  <2> QED BY <1>1, <1>3, <1>6, <2>1, PendingExtends
<1>9. Cardinality(Fresh(n, n2, F)) = IF m \in F[at] THEN 1 ELSE 0
  <2>1. CASE m \in F[at]
    <3>1. Fresh(n, n2, F) = {<<at, Len(n[at]) + 1>>}
      BY <1>7, <1>8, <2>1
    <3> QED BY <2>1, <3>1, FS_Singleton
  <2>2. CASE m \notin F[at]
    <3>1. Fresh(n, n2, F) = {}
      BY <1>7, <2>2
    <3> QED BY <2>2, <3>1, FS_EmptySet
  <2> QED BY <2>1, <2>2
<1>10. Cardinality(Pending(n2, F)) = Cardinality(Pending(n, F)) + Cardinality(Fresh(n, n2, F))
  BY <1>3, <1>6, PendingExtends
<1> QED BY <1>9, <1>10 DEF n2, at

LEMMA ConcatCopies ==
  ASSUME NEW q \in Seq(Message), NEW m \in Message, NEW n \in Nat
  PROVE  /\ Len(q \o [j \in 1 .. n |-> m]) = Len(q) + n
         /\ DOMAIN (q \o [j \in 1 .. n |-> m]) = 1 .. Len(q) + n
         /\ \A j \in 1 .. Len(q) : (q \o [i \in 1 .. n |-> m])[j] = q[j]
         /\ \A j \in 1 .. Len(q) + n : j > Len(q) => (q \o [i \in 1 .. n |-> m])[j] = m
<1> DEFINE c == [j \in 1 .. n |-> m]
<1>1. c \in Seq(Message) /\ Len(c) = n
  BY SMT
<1>2. /\ q \o c \in Seq(Message) /\ Len(q \o c) = Len(q) + n
      /\ DOMAIN (q \o c) = 1 .. Len(q) + n
      /\ \A j \in 1 .. Len(q) + n : (q \o c)[j] = IF j <= Len(q) THEN q[j] ELSE c[j - Len(q)]
  BY <1>1, ConcatProperties, LenProperties
<1>3. Len(q) \in Nat
  BY LenProperties
<1>4. \A j \in 1 .. n : c[j] = m
  OBVIOUS
<1> HIDE DEF c
<1>5. /\ \A j \in 1 .. Len(q) : (q \o c)[j] = q[j]
      /\ \A j \in 1 .. Len(q) + n : j > Len(q) => (q \o c)[j] = m
  BY <1>2, <1>3, <1>4
<1> QED BY <1>2, <1>5 DEF c

\* One message for every index of dests, and those of them that the filter counts
Counted(k, s, dests, m, F) == {x \in 1 .. serverNetLoad[s] : m \in F[<<k, s, dests[x]>>]}

LEMMA PendingPostAll ==
  ASSUME NEW n \in Networks, NEW k \in Comms, NEW s \in ServerRanks, NEW m \in Message, NEW F,
         NEW dests \in [1 .. serverNetLoad[s] -> Ranks]
  PROVE  Cardinality(Pending(PostAll(n, k, s, dests, m), F))
           = Cardinality(Pending(n, F)) + Cardinality(Counted(k, s, dests, m, F))
<1> DEFINE n2 == PostAll(n, k, s, dests, m)
           copies(d) == {x \in DOMAIN dests : dests[x] = d}
           at(d) == <<k, s, d>>
           Chosen == {x \in 1 .. serverNetLoad[s] : m \in F[at(dests[x])]}
           New == Fresh(n, n2, F)
<1>0. /\ DOMAIN dests = 1 .. serverNetLoad[s]
      /\ \A d \in Ranks : at(d) \in Channels /\ at(d)[1] = k /\ at(d)[2] = s /\ at(d)[3] = d
  BY ChannelTuple, LoadIs
<1>1. IsFiniteSet(1 .. serverNetLoad[s])
  BY FS_Interval, LoadIs
<1>2. \A d : /\ IsFiniteSet(copies(d)) /\ Cardinality(copies(d)) \in Nat
  <2> TAKE d
  <2>1. copies(d) \in SUBSET (1 .. serverNetLoad[s])
    BY <1>0
  <2> HIDE DEF copies
  <2>2. IsFiniteSet(copies(d))
    BY <1>1, <2>1, FS_Subset
  <2> QED BY <2>2, FS_CardinalityType
<1> DEFINE count(d) == Cardinality(copies(d))
           b(d) == CHOOSE f : Numbers(f, copies(d))
<1>3. ASSUME NEW d
      PROVE  /\ b(d) \in [1 .. count(d) -> copies(d)]
             /\ \A i, j \in 1 .. count(d) : b(d)[i] = b(d)[j] => i = j
             /\ \A x \in copies(d) : \E i \in 1 .. count(d) : b(d)[i] = x
  <2> HIDE DEF copies
  <2>1. \E f : Numbers(f, copies(d))
    BY <1>2, Numbering
  <2>2. Numbers(b(d), copies(d))
    BY <2>1
  <2> HIDE DEF b
  <2> QED BY <2>2 DEF Numbers
<1>4. ASSUME NEW ch \in Channels
      PROVE  n2[ch] = IF ch[1] = k /\ ch[2] = s
                      THEN n[ch] \o [j \in 1 .. count(ch[3]) |-> m] ELSE n[ch]
  BY DEF PostAll
<1>5. n2 \in Networks
  BY PostAllNet DEF Adds
<1>6. \A ch \in Channels : n[ch] \in Seq(Message) /\ Len(n[ch]) \in Nat /\ DOMAIN n[ch] = 1 .. Len(n[ch])
  BY LenProperties DEF Networks
<1> HIDE DEF n2, b
<1>7. ASSUME NEW ch \in Channels, ch[1] = k /\ ch[2] = s
      PROVE  /\ Len(n2[ch]) = Len(n[ch]) + count(ch[3])
             /\ DOMAIN n2[ch] = 1 .. Len(n[ch]) + count(ch[3])
             /\ \A j \in 1 .. Len(n[ch]) : n2[ch][j] = n[ch][j]
             /\ \A j \in 1 .. Len(n[ch]) + count(ch[3]) : j > Len(n[ch]) => n2[ch][j] = m
  <2>1. count(ch[3]) \in Nat
    BY <1>2
  <2>2. n2[ch] = n[ch] \o [j \in 1 .. count(ch[3]) |-> m]
    BY <1>4, <1>7
  <2> HIDE DEF count
  <2> QED BY <1>6, <2>1, <2>2, ConcatCopies
<1>8. ASSUME NEW ch \in Channels, ~(ch[1] = k /\ ch[2] = s)
      PROVE  n2[ch] = n[ch]
  BY <1>4, <1>8
<1>9. Extends(n, n2)
  <2> SUFFICES ASSUME NEW ch \in Channels
               PROVE  /\ Len(n[ch]) <= Len(n2[ch])
                      /\ \A j \in 1 .. Len(n[ch]) : n2[ch][j] = n[ch][j]
    BY DEF Extends
  <2>1. count(ch[3]) \in Nat
    BY <1>2
  <2> HIDE DEF count
  <2> QED BY <1>6, <1>7, <1>8, <2>1
<1> DEFINE index(w) == b(w[1][3])[w[2] - Len(n[w[1]])]
           f == [w \in New |-> index(w)]
<1>10. ASSUME NEW w \in New
       PROVE  \E d \in Ranks : \E i \in 1 .. count(d) :
                w = <<at(d), Len(n[at(d)]) + i>> /\ f[w] = b(d)[i] /\ f[w] \in Chosen
  <2> HIDE DEF at, count, copies, Chosen, f
  <2>1. PICK ch \in Channels : \E j \in DOMAIN n2[ch] :
               n2[ch][j] \in F[ch] /\ j > Len(n[ch]) /\ w = <<ch, j>>
    BY <1>5, <1>9, PendingExtends
  <2>2. PICK j \in DOMAIN n2[ch] : n2[ch][j] \in F[ch] /\ j > Len(n[ch]) /\ w = <<ch, j>>
    BY <2>1
  <2>3. ch[1] = k /\ ch[2] = s
    BY <1>6, <1>8, <2>2
  <2>4. ch[3] \in Ranks /\ ch = at(ch[3])
    BY <2>3 DEF Channels, at
  <2>5. count(ch[3]) \in Nat
    BY <1>2 DEF count
  <2>6. j \in 1 .. Len(n[ch]) + count(ch[3]) /\ n2[ch][j] = m /\ m \in F[ch]
    BY <1>7, <2>2, <2>3
  <2> DEFINE i == j - Len(n[ch])
  <2>7. i \in 1 .. count(ch[3]) /\ j = Len(n[ch]) + i
    BY <1>6, <2>2, <2>5, <2>6
  <2>8. f[w] = b(ch[3])[i]
    BY <2>2 DEF f
  <2>9. f[w] \in copies(ch[3])
    <3>1. b(ch[3]) \in [1 .. count(ch[3]) -> copies(ch[3])]
      BY <1>3
    <3> QED BY <2>7, <2>8, <3>1
  <2>10. f[w] \in 1 .. serverNetLoad[s] /\ dests[f[w]] = ch[3]
    BY <1>0, <2>9 DEF copies
  <2>11. f[w] \in Chosen
    BY <2>4, <2>6, <2>10 DEF Chosen
  <2> QED BY <2>2, <2>4, <2>7, <2>8, <2>11
<1>11. f \in [New -> Chosen]
  BY <1>10
<1>12. \A v, w \in New : f[v] = f[w] => v = w
  <2> HIDE DEF New, f, Chosen, count, copies, at
  <2> SUFFICES ASSUME NEW v \in New, NEW w \in New, f[v] = f[w] PROVE v = w
    OBVIOUS
  <2>1. PICK d1 \in Ranks : \E i \in 1 .. count(d1) :
          v = <<at(d1), Len(n[at(d1)]) + i>> /\ f[v] = b(d1)[i]
    BY <1>10
  <2>2. PICK i1 \in 1 .. count(d1) : v = <<at(d1), Len(n[at(d1)]) + i1>> /\ f[v] = b(d1)[i1]
    BY <2>1
  <2>3. PICK d2 \in Ranks : \E i \in 1 .. count(d2) :
          w = <<at(d2), Len(n[at(d2)]) + i>> /\ f[w] = b(d2)[i]
    BY <1>10
  <2>4. PICK i2 \in 1 .. count(d2) : w = <<at(d2), Len(n[at(d2)]) + i2>> /\ f[w] = b(d2)[i2]
    BY <2>3
  <2>5. b(d1)[i1] \in copies(d1) /\ b(d2)[i2] \in copies(d2)
    BY <1>3
  <2>6. d1 = d2
    BY <2>2, <2>4, <2>5 DEF copies
  <2>7. i1 = i2
    BY <1>3, <2>2, <2>4, <2>6
  <2> QED BY <2>2, <2>4, <2>6, <2>7
<1>13. \A x \in Chosen : \E w \in New : f[w] = x
  <2> SUFFICES ASSUME NEW x \in Chosen PROVE \E w \in New : f[w] = x
    OBVIOUS
  <2> DEFINE d == dests[x]
  <2>1. x \in 1 .. serverNetLoad[s] /\ d \in Ranks /\ m \in F[at(d)] /\ x \in copies(d)
    BY <1>0
  <2> HIDE DEF d, Chosen, copies, at
  <2>2. PICK i \in 1 .. count(d) : b(d)[i] = x
    BY <1>3, <2>1
  <2>3. at(d) \in Channels /\ at(d)[1] = k /\ at(d)[2] = s /\ at(d)[3] = d
    BY <1>0, <2>1
  <2>4. count(d) \in Nat
    BY <1>2
  <2> HIDE DEF count
  <2> DEFINE j == Len(n[at(d)]) + i
  <2>5. Len(n[at(d)]) \in Nat
    BY <1>6, <2>3
  <2>6. j \in 1 .. Len(n[at(d)]) + count(d) /\ j > Len(n[at(d)]) /\ j - Len(n[at(d)]) = i
    BY <2>4, <2>5
  <2>7. j \in DOMAIN n2[at(d)] /\ n2[at(d)][j] = m
    BY <1>7, <2>3, <2>6
  <2>8. <<at(d), j>> \in Fresh(n, n2, F)
    BY <1>5, <1>9, <2>1, <2>3, <2>6, <2>7, PendingExtends
  <2>9. f[<<at(d), j>>] = b(d)[i]
    BY <2>3, <2>6, <2>8
  <2> QED BY <2>2, <2>8, <2>9
<1> HIDE DEF f, Chosen, copies, at
<1>14. IsFiniteSet(New)
       /\ Cardinality(Pending(n2, F)) = Cardinality(Pending(n, F)) + Cardinality(New)
  BY <1>5, <1>9, PendingExtends
<1> HIDE DEF New
<1>15. Cardinality(Chosen) = Cardinality(New)
  BY <1>11, <1>12, <1>13, <1>14, SameSize
<1>16. Chosen = Counted(k, s, dests, m, F)
  BY DEF Chosen, at, Counted
<1> QED BY <1>14, <1>15, <1>16 DEF n2

LEMMA PendingConsumed ==
  ASSUME net \in Networks, NEW k \in Comms, NEW s \in Ranks, NEW d \in Ranks, Arrived(k, s, d), NEW F
  PROVE  Cardinality(Pending(Consumed(k, s, d), F))
           = Cardinality(Pending(net, F))
             - (IF Head(net[<<k, s, d>>]) \in F[<<k, s, d>>] THEN 1 ELSE 0)
<1> DEFINE ch == <<k, s, d>>
           n2 == Consumed(k, s, d)
<1>1. ch \in Channels /\ net[ch] # <<>>
  BY ChannelTuple DEF Arrived
<1>2. n2 \in Networks
  BY ConsumedNet
<1>3. n2[ch] = Tail(net[ch]) /\ \A c2 \in Channels \ {ch} : n2[c2] = net[c2]
  BY <1>1 DEF Consumed, Networks
<1>4. PICK n \in Networks : n = net
  OBVIOUS
<1> HIDE DEF ch, n2
<1>5. Cardinality(Pending(n2, F)) = Cardinality(Pending(n, F)) - (IF Head(n[ch]) \in F[ch] THEN 1 ELSE 0)
  BY <1>1, <1>2, <1>3, <1>4, PendingTail
<1> QED BY <1>4, <1>5 DEF ch, n2

-------------------------------------------------------------------------------
(* Where the requests are                                                    *)

\* The request of client c, on its way to a thread or back as an ACK
TokenFilter(c) ==
  [ch \in Channels |-> {m \in Message :
     /\ ch[1] = "HP"
     /\ \/ ch[2] = c /\ ch[3] \in ServerRanks /\ m.kind = "HP REQUEST"
        \/ ch[2] \in ServerRanks /\ ch[3] = c}]

\* The server requests of slot t of s, and the ACKs to them
ReplyFilter(s, t) ==
  [ch \in Channels |-> {m \in Message :
     /\ ch[1] = "HP" /\ ch[2] \in ServerRanks /\ ch[3] \in ServerRanks /\ m.tag = t
     /\ \/ ch[2] = s /\ m.kind = "HP SERVER REQUEST"
        \/ ch[3] = s /\ m.kind = "HP ACK"}]

\* The requests of the clients
LPRequests ==
  [ch \in Channels |-> {m \in Message :
     ch[1] = "LP" /\ ch[2] \in Clients /\ ch[3] \in ServerRanks /\ m.kind = "LP REQUEST"}]

HPRequests ==
  [ch \in Channels |-> {m \in Message :
     ch[1] = "HP" /\ ch[2] \in Clients /\ ch[3] \in ServerRanks /\ m.kind = "HP REQUEST"}]

IsHP(k) == k = "HP"
IsRequest(m)       == m.kind = "HP REQUEST"
IsServerRequest(m) == m.kind = "HP SERVER REQUEST"
IsAck(m)           == m.kind = "HP ACK"

LEMMA InTokenFilter ==
  ASSUME NEW k \in Comms, NEW p \in Ranks, NEW d \in Ranks, NEW m \in Message, NEW c
  PROVE  m \in TokenFilter(c)[<<k, p, d>>]
           <=> /\ IsHP(k)
               /\ \/ p = c /\ d \in ServerRanks /\ IsRequest(m)
                  \/ p \in ServerRanks /\ d = c
<1> DEFINE ch == <<k, p, d>>
<1>1. ch \in Channels /\ ch[1] = k /\ ch[2] = p /\ ch[3] = d
  BY ChannelTuple
<1> HIDE DEF ch
<1> QED BY <1>1 DEF TokenFilter, ch, IsHP, IsRequest

LEMMA InReplyFilter ==
  ASSUME NEW k \in Comms, NEW p \in Ranks, NEW d \in Ranks, NEW m \in Message, NEW s, NEW t
  PROVE  m \in ReplyFilter(s, t)[<<k, p, d>>]
           <=> /\ IsHP(k) /\ p \in ServerRanks /\ d \in ServerRanks /\ m.tag = t
               /\ \/ p = s /\ IsServerRequest(m)
                  \/ d = s /\ IsAck(m)
<1> DEFINE ch == <<k, p, d>>
<1>1. ch \in Channels /\ ch[1] = k /\ ch[2] = p /\ ch[3] = d
  BY ChannelTuple
<1> HIDE DEF ch
<1> QED BY <1>1 DEF ReplyFilter, ch, IsHP, IsServerRequest, IsAck

LEMMA InRequests ==
  ASSUME NEW k \in Comms, NEW p \in Ranks, NEW d \in Ranks, NEW m \in Message
  PROVE  /\ m \in LPRequests[<<k, p, d>>] <=>
              k = "LP" /\ p \in Clients /\ d \in ServerRanks /\ m.kind = "LP REQUEST"
         /\ m \in HPRequests[<<k, p, d>>] <=>
              k = "HP" /\ p \in Clients /\ d \in ServerRanks /\ m.kind = "HP REQUEST"
<1> DEFINE ch == <<k, p, d>>
<1>1. ch \in Channels /\ ch[1] = k /\ ch[2] = p /\ ch[3] = d
  BY ChannelTuple
<1> HIDE DEF ch
<1> QED BY <1>1 DEF LPRequests, HPRequests, ch

-------------------------------------------------------------------------------
(* What a handler does to the counts                                         *)

LEMMA ReceivedOnly ==
  ASSUME net \in Networks, NEW k \in Comms, NEW p \in Ranks, NEW s \in Ranks, Arrived(k, p, s),
         net' = Consumed(k, p, s), NEW F
  PROVE  Cardinality(Pending(net', F))
           = Cardinality(Pending(net, F))
             - (IF Head(net[<<k, p, s>>]) \in F[<<k, p, s>>] THEN 1 ELSE 0)
BY PendingConsumed

LEMMA ReceivedAndPosted ==
  ASSUME net \in Networks, NEW k \in Comms, NEW p \in Ranks, NEW s \in Ranks, Arrived(k, p, s),
         NEW d \in Ranks, NEW x \in Message, net' = Post(Consumed(k, p, s), k, s, d, x), NEW F
  PROVE  Cardinality(Pending(net', F))
           = Cardinality(Pending(net, F))
             - (IF Head(net[<<k, p, s>>]) \in F[<<k, p, s>>] THEN 1 ELSE 0)
             + (IF x \in F[<<k, s, d>>] THEN 1 ELSE 0)
<1>1. PICK n \in Networks : n = Consumed(k, p, s)
  BY ConsumedNet
<1>2. Cardinality(Pending(net', F)) = Cardinality(Pending(n, F)) + (IF x \in F[<<k, s, d>>] THEN 1 ELSE 0)
  BY <1>1, PendingPost
<1>3. Cardinality(Pending(n, F)) = Cardinality(Pending(net, F))
         - (IF Head(net[<<k, p, s>>]) \in F[<<k, p, s>>] THEN 1 ELSE 0)
  BY <1>1, PendingConsumed
<1> QED BY <1>2, <1>3

LEMMA ReceivedAndSpread ==
  ASSUME net \in Networks, NEW k \in Comms, NEW p \in Ranks, NEW s \in ServerRanks, Arrived(k, p, s),
         NEW dests \in NetworkTargets(k, s), NEW x \in Message,
         net' = PostAll(Consumed(k, p, s), k, s, dests, x), NEW F
  PROVE  /\ dests \in [1 .. serverNetLoad[s] -> Listening(k)]
         /\ Cardinality(Pending(net', F))
              = Cardinality(Pending(net, F))
                - (IF Head(net[<<k, p, s>>]) \in F[<<k, p, s>>] THEN 1 ELSE 0)
                + Cardinality(Counted(k, s, dests, x, F))
<1>1. PICK n \in Networks : n = Consumed(k, p, s)
  BY LoadIs, ConsumedNet
<1>2. dests \in [1 .. serverNetLoad[s] -> Listening(k)] /\ Listening(k) \subseteq Ranks
  BY NetworkTargetsListen, RankKinds DEF Listening
<1>3. dests \in [1 .. serverNetLoad[s] -> Ranks]
  BY <1>2
<1>4. Cardinality(Pending(net', F)) = Cardinality(Pending(n, F)) + Cardinality(Counted(k, s, dests, x, F))
  BY <1>1, <1>3, PendingPostAll
<1>5. Cardinality(Pending(n, F)) = Cardinality(Pending(net, F))
         - (IF Head(net[<<k, p, s>>]) \in F[<<k, p, s>>] THEN 1 ELSE 0)
  BY <1>1, LoadIs, PendingConsumed
<1> QED BY <1>2, <1>4, <1>5

\* Of what a step sends to many, the filters here count all or nothing
LEMMA NoneOrAll ==
  ASSUME NEW k, NEW s \in ServerRanks, NEW dests, NEW x, NEW F, NEW yes \in BOOLEAN,
         \A i \in 1 .. serverNetLoad[s] : x \in F[<<k, s, dests[i]>>] <=> yes
  PROVE  Cardinality(Counted(k, s, dests, x, F)) = IF yes THEN serverNetLoad[s] ELSE 0
<1>1. CASE yes
  <2>1. Counted(k, s, dests, x, F) = 1 .. serverNetLoad[s]
    BY <1>1 DEF Counted
  <2>2. Cardinality(1 .. serverNetLoad[s]) = serverNetLoad[s]
    BY FS_Interval, LoadIs
  <2> QED BY <1>1, <2>1, <2>2
<1>2. CASE ~yes
  <2>1. Counted(k, s, dests, x, F) = {}
    BY <1>2 DEF Counted
  <2> QED BY <1>2, <2>1, FS_EmptySet
<1> QED BY <1>1, <1>2

\* Messages the filter does not count leave the count alone
LEMMA UncountedAppends ==
  ASSUME NEW n \in Networks, NEW n2 \in Networks, NEW m \in Message, NEW F,
         \A ch \in Channels : n2[ch] = n[ch] \/ (n2[ch] = Append(n[ch], m) /\ m \notin F[ch])
  PROVE  Cardinality(Pending(n2, F)) = Cardinality(Pending(n, F))
<1>1. ASSUME NEW ch \in Channels
      PROVE  /\ Len(n[ch]) \in Nat /\ DOMAIN n[ch] = 1 .. Len(n[ch])
             /\ \/ n2[ch] = n[ch]
                \/ /\ m \notin F[ch]
                   /\ Len(n2[ch]) = Len(n[ch]) + 1 /\ DOMAIN n2[ch] = 1 .. Len(n[ch]) + 1
                   /\ \A j \in 1 .. Len(n[ch]) : n2[ch][j] = n[ch][j]
                   /\ n2[ch][Len(n[ch]) + 1] = m
  <2>1. PICK q \in Seq(Message) : q = n[ch]
    BY DEF Networks
  <2>2. Len(q) \in Nat /\ DOMAIN q = 1 .. Len(q)
    BY LenProperties
  <2>3. /\ Append(q, m) \in Seq(Message)
        /\ Len(Append(q, m)) = Len(q) + 1
        /\ \A j \in 1 .. Len(q) : Append(q, m)[j] = q[j]
        /\ Append(q, m)[Len(q) + 1] = m
    BY AppendProperties
  <2>4. DOMAIN Append(q, m) = 1 .. Len(q) + 1
    BY <2>3, LenProperties
  <2>5. n2[ch] = n[ch] \/ (n2[ch] = Append(n[ch], m) /\ m \notin F[ch])
    OBVIOUS
  <2> QED BY <2>1, <2>2, <2>3, <2>4, <2>5
<1>2. Extends(n, n2)
  BY <1>1 DEF Extends
<1>3. Fresh(n, n2, F) = {}
  <2> SUFFICES ASSUME NEW w \in Fresh(n, n2, F) PROVE FALSE
    OBVIOUS
  <2>1. PICK ch \in Channels : \E j \in DOMAIN n2[ch] :
               n2[ch][j] \in F[ch] /\ j > Len(n[ch]) /\ w = <<ch, j>>
    BY <1>2, PendingExtends
  <2>2. PICK j \in DOMAIN n2[ch] : n2[ch][j] \in F[ch] /\ j > Len(n[ch])
    BY <2>1
  <2> QED BY <1>1, <2>2
<1>4. Cardinality(Pending(n2, F)) = Cardinality(Pending(n, F)) + Cardinality(Fresh(n, n2, F))
  BY <1>2, PendingExtends
<1>5. Cardinality(Fresh(n, n2, F)) = 0
  BY <1>3, FS_EmptySet
<1>6. Cardinality(Pending(n, F)) \in Nat
  BY PendingFinite
<1> QED BY <1>4, <1>5, <1>6

LEMMA FinishCounts ==
  ASSUME IInv, NEW c \in Clients, Finish(c), IInv', NEW F,
         \A ch \in Channels : ch[2] = c /\ ch[3] \in ServerRanks => Msg("SIM COMPLETE", 0) \notin F[ch]
  PROVE  Cardinality(Pending(net', F)) = Cardinality(Pending(net, F))
<1>1. PICK n \in Networks : n = net
  BY DEF IInv, TypeOK, Networks
<1>2. PICK n2 \in Networks : n2 = net'
  BY DEF IInv, TypeOK, Networks
<1>3. PICK m \in Message : m = Msg("SIM COMPLETE", 0)
  BY MsgType, ZeroIsSlot DEF Kinds
<1>4. ASSUME NEW ch \in Channels
      PROVE  n2[ch] = n[ch] \/ (n2[ch] = Append(n[ch], m) /\ m \notin F[ch])
  BY <1>1, <1>2, <1>3 DEF Finish
<1>5. Cardinality(Pending(n2, F)) = Cardinality(Pending(n, F))
  BY <1>4, UncountedAppends
<1> QED BY <1>1, <1>2, <1>5

-------------------------------------------------------------------------------
(* The counts of requests                                                    *)

LEMMA TotalFinite ==
  ASSUME NEW S, IsFiniteSet(S), NEW f \in [S -> Nat]
  PROVE  /\ IsFiniteSet(UNION {{x} \X (1 .. f[x]) : x \in S})
         /\ Total(f) \in Nat
<1> DEFINE of(x) == {x} \X (1 .. f[x])
           all == {of(x) : x \in S}
           g == [x \in S |-> of(x)]
<1>1. ASSUME NEW x \in S PROVE IsFiniteSet(of(x))
  <2>1. IsFiniteSet(1 .. f[x])
    BY FS_Interval
  <2> QED BY <2>1, FS_Singleton, FS_Product
<1> HIDE DEF of
<1>2. g \in Surjection(S, all)
  <2>1. g \in [S -> all] /\ \A z \in all : \E x \in S : g[x] = z
    OBVIOUS
  <2> QED BY <2>1, Fun_IsSurj
<1>3. IsFiniteSet(all) /\ \A z \in all : IsFiniteSet(z)
  BY <1>1, <1>2, FS_Surjection
<1>4. DOMAIN f = S
  OBVIOUS
<1> QED BY <1>3, <1>4, FS_UNION, FS_CardinalityType DEF Total, of

\* One more of one of the numbers is one more in total
LEMMA TotalUp ==
  ASSUME NEW S, IsFiniteSet(S), NEW f \in [S -> Nat], NEW g \in [S -> Nat], NEW x \in S,
         g[x] = f[x] + 1, \A y \in S \ {x} : g[y] = f[y]
  PROVE  Total(g) = Total(f) + 1
<1> DEFINE U(h) == UNION {{y} \X (1 .. h[y]) : y \in S}
<1>1. IsFiniteSet(U(f)) /\ Cardinality(U(f)) = Total(f) /\ Cardinality(U(g)) = Total(g)
  BY TotalFinite DEF Total
<1>2. \A h \in [S -> Nat] : \A w : w \in U(h) <=> \E y \in S : \E i \in 1 .. h[y] : w = <<y, i>>
  OBVIOUS
<1> HIDE DEF U
<1>3. <<x, f[x] + 1>> \notin U(f)
  <2> SUFFICES ASSUME <<x, f[x] + 1>> \in U(f) PROVE FALSE
    OBVIOUS
  <2>1. PICK y \in S : \E i \in 1 .. f[y] : <<x, f[x] + 1>> = <<y, i>>
    BY <1>2
  <2>2. PICK i \in 1 .. f[y] : <<x, f[x] + 1>> = <<y, i>>
    BY <2>1
  <2>3. x = y /\ f[x] + 1 = i
    BY <2>2
  <2> QED BY <2>2, <2>3
<1>4. U(g) = U(f) \union {<<x, f[x] + 1>>}
  <2>1. ASSUME NEW w \in U(g) PROVE w \in U(f) \union {<<x, f[x] + 1>>}
    <3>1. PICK y \in S : \E i \in 1 .. g[y] : w = <<y, i>>
      BY <1>2, <2>1
    <3>2. PICK i \in 1 .. g[y] : w = <<y, i>>
      BY <3>1
    <3>3. CASE y = x /\ i = f[x] + 1
      BY <3>2, <3>3
    <3>4. CASE ~(y = x /\ i = f[x] + 1)
      <4>1. i \in 1 .. f[y]
        BY <3>2, <3>4
      <4> QED BY <1>2, <3>2, <4>1
    <3> QED BY <3>3, <3>4
  <2>2. ASSUME NEW w \in U(f) PROVE w \in U(g)
    <3>1. PICK y \in S : \E i \in 1 .. f[y] : w = <<y, i>>
      BY <1>2, <2>2
    <3>2. PICK i \in 1 .. f[y] : w = <<y, i>>
      BY <3>1
    <3>3. i \in 1 .. g[y]
      BY <3>2
    <3> QED BY <1>2, <3>2, <3>3
  <2>3. <<x, f[x] + 1>> \in U(g)
    <3>1. f[x] + 1 \in 1 .. g[x]
      OBVIOUS
    <3> QED BY <1>2, <3>1
  <2> QED BY <2>1, <2>2, <2>3
<1>5. Cardinality(U(g)) = Cardinality(U(f)) + 1
  BY <1>1, <1>3, <1>4, FS_AddElement
<1> QED BY <1>1, <1>5

LEMMA TotalIncrement ==
  ASSUME NEW S, IsFiniteSet(S), NEW f \in [S -> Nat], NEW x \in S
  PROVE  Total([f EXCEPT ![x] = @ + 1]) = Total(f) + 1
<1> DEFINE g == [f EXCEPT ![x] = @ + 1]
<1>1. g \in [S -> Nat] /\ g[x] = f[x] + 1 /\ \A y \in S \ {x} : g[y] = f[y]
  OBVIOUS
<1> HIDE DEF g
<1>2. Total(g) = Total(f) + 1
  BY <1>1, TotalUp
<1> QED BY <1>2 DEF g

\* A server thread sends nothing that a filter of requests counts: it only takes
LEMMA HandlerTakes ==
  ASSUME IInv, NEW s \in ServerRanks, NEW p \in Ranks, NEW k \in Comms, NEW m \in Message,
         Arrived(k, p, s), m = Head(net[<<k, p, s>>]), Handler(s, p, k, m),
         NEW F, \A d \in Ranks, x \in Message : x \notin F[<<k, s, d>>]
  PROVE  Cardinality(Pending(net', F))
           = Cardinality(Pending(net, F)) - (IF m \in F[<<k, p, s>>] THEN 1 ELSE 0)
<1>0. net \in Networks /\ s \in Ranks /\ s \notin Clients
  BY RankKinds DEF IInv, TypeOK, Networks
<1>1. Cardinality(Pending(net, F)) \in Nat
  <2>1. PICK n \in Networks : n = net
    BY <1>0
  <2> QED BY <2>1, PendingFinite
<1>2. CASE net' = Consumed(k, p, s)
  <2>1. Cardinality(Pending(net', F)) = Cardinality(Pending(net, F))
             - (IF Head(net[<<k, p, s>>]) \in F[<<k, p, s>>] THEN 1 ELSE 0)
    BY <1>0, <1>2, ReceivedOnly
  <2> QED BY <2>1
<1>3. CASE \E d \in Ranks, x \in Message : net' = Post(Consumed(k, p, s), k, s, d, x)
  <2>1. PICK d \in Ranks, x \in Message : net' = Post(Consumed(k, p, s), k, s, d, x)
    BY <1>3
  <2>2. Cardinality(Pending(net', F)) = Cardinality(Pending(net, F))
             - (IF Head(net[<<k, p, s>>]) \in F[<<k, p, s>>] THEN 1 ELSE 0)
             + (IF x \in F[<<k, s, d>>] THEN 1 ELSE 0)
    BY <1>0, <2>1, ReceivedAndPosted
  <2> QED BY <1>1, <2>2
<1>4. CASE \E dests \in NetworkTargets(k, s), x \in Message :
              net' = PostAll(Consumed(k, p, s), k, s, dests, x)
  <2>1. PICK dests \in NetworkTargets(k, s), x \in Message :
              net' = PostAll(Consumed(k, p, s), k, s, dests, x)
    BY <1>4
  <2>2. /\ dests \in [1 .. serverNetLoad[s] -> Listening(k)]
        /\ Cardinality(Pending(net', F)) = Cardinality(Pending(net, F))
             - (IF Head(net[<<k, p, s>>]) \in F[<<k, p, s>>] THEN 1 ELSE 0)
             + Cardinality(Counted(k, s, dests, x, F))
    BY <1>0, <2>1, ReceivedAndSpread
  <2>3. \A i \in 1 .. serverNetLoad[s] : dests[i] \in Ranks
    BY <2>2, RankKinds DEF Listening
  <2>4. \A i \in 1 .. serverNetLoad[s] : x \in F[<<k, s, dests[i]>>] <=> FALSE
    BY <2>3
  <2>5. Cardinality(Counted(k, s, dests, x, F)) = 0
    BY <2>4, NoneOrAll
  <2> QED BY <1>1, <2>2, <2>5
<1> QED BY <1>2, <1>3, <1>4, HandlerSends

\* What a client has asked for with high priority
HPAsked ==
  [c \in Clients |->
     numHPReqSamples[c]
     + (IF warmupCount[c] < NumWarmupSamples THEN warmupCount[c] ELSE NumWarmupSamples)
     + (IF pc[c] = "wait" THEN 1 ELSE 0)]

LPSent == Cardinality(Pending(net, LPRequests))
HPSent == Cardinality(Pending(net, HPRequests))

SentInv ==
  /\ Total(numLPReqMsgs) + LPSent = Total(numLPReqSamples)
  /\ Total(numHPReqMsgs) + HPSent = Total(HPAsked)

LEMMA HPAskedType ==
  ASSUME TypeOK
  PROVE  HPAsked \in [Clients -> Nat]
<1>1. \A c \in Clients : numHPReqSamples[c] \in Nat /\ warmupCount[c] \in Nat /\ NumWarmupSamples \in Nat
  BY SimulationAssumption DEF TypeOK
<1> QED BY <1>1 DEF HPAsked

LEMMA HPAskedTypeNext ==
  ASSUME TypeOK'
  PROVE  HPAsked' \in [Clients -> Nat]
<1>1. \A c \in Clients : numHPReqSamples'[c] \in Nat /\ warmupCount'[c] \in Nat /\ NumWarmupSamples \in Nat
  BY SimulationAssumption DEF TypeOK
<1> QED BY <1>1 DEF HPAsked

LEMMA SentTypes ==
  ASSUME IInv
  PROVE  LPSent \in Nat /\ HPSent \in Nat
<1>1. PICK n \in Networks : n = net
  BY DEF IInv, TypeOK, Networks
<1> QED BY <1>1, PendingFinite DEF LPSent, HPSent

LEMMA TotalTypes ==
  ASSUME IInv
  PROVE  /\ Total(numLPReqMsgs) \in Nat /\ Total(numHPReqMsgs) \in Nat
         /\ Total(numLPReqSamples) \in Nat /\ Total(HPAsked) \in Nat
<1>1. PICK f \in [Clients -> Nat] : f = HPAsked
  BY HPAskedType DEF IInv
<1>2. PICK g \in [Clients -> Nat] : g = numLPReqSamples
  BY DEF IInv, TypeOK
<1>3. PICK a \in [ServerRanks -> Nat] : a = numHPReqMsgs
  BY DEF IInv, TypeOK
<1>4. PICK b \in [ServerRanks -> Nat] : b = numLPReqMsgs
  BY DEF IInv, TypeOK
<1> QED BY <1>1, <1>2, <1>3, <1>4, FiniteChannels, TotalFinite

LEMMA TotalZero ==
  ASSUME NEW S, NEW f \in [S -> Nat], \A x \in S : f[x] = 0
  PROVE  Total(f) = 0
<1>1. UNION {{x} \X (1 .. f[x]) : x \in DOMAIN f} = {}
  OBVIOUS
<1> QED BY <1>1, FS_EmptySet DEF Total

LEMMA SentInit == Init => SentInv
<1> SUFFICES ASSUME Init PROVE SentInv
  OBVIOUS
<1>1. LPSent = 0 /\ HPSent = 0
  <2>1. \A ch \in Channels : net[ch] = <<>>
    BY DEF Init
  <2>2. \A F : Pending(net, F) = {}
    BY <2>1 DEF Pending
  <2> QED BY <2>2, FS_EmptySet DEF LPSent, HPSent
<1>2. /\ numLPReqMsgs \in [ServerRanks -> Nat] /\ \A s \in ServerRanks : numLPReqMsgs[s] = 0
      /\ numHPReqMsgs \in [ServerRanks -> Nat] /\ \A s \in ServerRanks : numHPReqMsgs[s] = 0
      /\ numLPReqSamples \in [Clients -> Nat] /\ \A c \in Clients : numLPReqSamples[c] = 0
  BY DEF Init, ClientInit, ServerInit
<1>3. \A c \in Clients : numHPReqSamples[c] = 0 /\ warmupCount[c] = 0 /\ pc[c] = "LP"
  BY DEF Init, ClientInit
<1>4. HPAsked \in [Clients -> Nat] /\ \A c \in Clients : HPAsked[c] = 0
  BY <1>3, SimulationAssumption DEF HPAsked
<1>5. Total(numLPReqMsgs) = 0 /\ Total(numHPReqMsgs) = 0 /\ Total(numLPReqSamples) = 0
  BY <1>2, TotalZero
<1>6. Total(HPAsked) = 0
  BY <1>4, TotalZero
<1> QED BY <1>1, <1>5, <1>6 DEF SentInv

\* A request posted by a client is one more of its kind
LEMMA ClientSent ==
  ASSUME IInv, NEW c \in Clients, NEW k \in Comms, NEW d \in ServerRanks, NEW m \in Message,
         net' = Post(net, k, c, d, m)
  PROVE  /\ LPSent' = LPSent + (IF k = "LP" /\ m.kind = "LP REQUEST" THEN 1 ELSE 0)
         /\ HPSent' = HPSent + (IF k = "HP" /\ m.kind = "HP REQUEST" THEN 1 ELSE 0)
<1>1. PICK n \in Networks : n = net
  BY DEF IInv, TypeOK, Networks
<1>2. c \in Ranks /\ d \in Ranks
  BY RankKinds
<1>3. /\ m \in LPRequests[<<k, c, d>>] <=> k = "LP" /\ m.kind = "LP REQUEST"
      /\ m \in HPRequests[<<k, c, d>>] <=> k = "HP" /\ m.kind = "HP REQUEST"
  <2> DEFINE ch == <<k, c, d>>
  <2>1. ch \in Channels /\ ch[1] = k /\ ch[2] = c /\ ch[3] = d
    BY <1>2, ChannelTuple
  <2> HIDE DEF ch
  <2>2. m \in LPRequests[ch] <=> k = "LP" /\ m.kind = "LP REQUEST"
    BY <2>1 DEF LPRequests
  <2>3. m \in HPRequests[ch] <=> k = "HP" /\ m.kind = "HP REQUEST"
    BY <2>1 DEF HPRequests
  <2> QED BY <2>2, <2>3 DEF ch
<1>4. \A F : Cardinality(Pending(net', F))
               = Cardinality(Pending(n, F)) + (IF m \in F[<<k, c, d>>] THEN 1 ELSE 0)
  BY <1>1, <1>2, PendingPost
<1> QED BY <1>1, <1>3, <1>4 DEF LPSent, HPSent

LEMMA HPAskedSame ==
  ASSUME \A c \in Clients : /\ numHPReqSamples'[c] = numHPReqSamples[c]
                            /\ warmupCount'[c] = warmupCount[c]
                            /\ pc'[c] = "wait" <=> pc[c] = "wait"
  PROVE  HPAsked' = HPAsked
<1>1. \A c \in Clients :
        numHPReqSamples[c]'
          + (IF warmupCount[c]' < NumWarmupSamples THEN warmupCount[c]' ELSE NumWarmupSamples)
          + (IF pc[c]' = "wait" THEN 1 ELSE 0)
        = numHPReqSamples[c]
          + (IF warmupCount[c] < NumWarmupSamples THEN warmupCount[c] ELSE NumWarmupSamples)
          + (IF pc[c] = "wait" THEN 1 ELSE 0)
  OBVIOUS
<1> QED BY <1>1, Zenon DEF HPAsked

LEMMA ClientStepSent ==
  ASSUME IInv, IInv', SentInv, NEW c \in Clients, ClientStep(c) \/ Signal(c)
  PROVE  SentInv'
<1>0. /\ TypeOK /\ pc \in [Clients -> {"LP", "HP", "wait", "done"}]
      /\ net \in Networks /\ targetServerID[c] \in Servers /\ c \in Ranks
  BY RankKinds DEF IInv, TypeOK, Networks
<1>1. CASE SendLPReq(c)
  <2>1. PICK d \in ThreadsFor("LP", targetServerID[c]), m \in Message :
          net' = Post(net, "LP", c, d, m) /\ m = Msg("LP REQUEST", 0)
    BY <1>1, MsgType, ZeroIsSlot DEF SendLPReq, Kinds
  <2>2. d \in ServerRanks /\ m.kind = "LP REQUEST" /\ "LP" \in Comms
    BY <1>0, <2>1, RankKinds DEF Comms, Msg
  <2>3. /\ LPSent' = LPSent + 1
        /\ HPSent' = HPSent + 0
    BY <2>1, <2>2, ClientSent
  <2>4. Total(numLPReqSamples)' = Total(numLPReqSamples) + 1
    <3>1. PICK f \in [Clients -> Nat] : f = numLPReqSamples
      BY <1>0 DEF TypeOK
    <3>2. numLPReqSamples' = [f EXCEPT ![c] = @ + 1]
      BY <1>1, <3>1 DEF SendLPReq
    <3> QED BY <3>1, <3>2, FiniteChannels, TotalIncrement
  <2>5. HPAsked' = HPAsked
    BY <1>0, <1>1, HPAskedSame DEF SendLPReq
  <2>6. UNCHANGED <<numLPReqMsgs, numHPReqMsgs>>
    BY <1>1 DEF SendLPReq, serverVars
  <2> QED BY <2>3, <2>4, <2>5, <2>6, TotalTypes, SentTypes DEF SentInv
<1>2. CASE SkipLPReq(c) \/ SkipHPReq(c) \/ Signal(c)
  <2>1. UNCHANGED <<net, numLPReqMsgs, numHPReqMsgs, numLPReqSamples, numHPReqSamples, warmupCount>>
    BY <1>2 DEF SkipLPReq, SkipHPReq, Signal, serverVars
  <2>2. \A b \in Clients : pc'[b] = "wait" <=> pc[b] = "wait"
    BY <1>0, <1>2 DEF SkipLPReq, SkipHPReq, Signal
  <2>3. HPAsked' = HPAsked
    BY <2>1, <2>2, HPAskedSame
  <2> QED BY <2>1, <2>3 DEF SentInv, LPSent, HPSent
<1>3. CASE SendHPReq(c)
  <2>1. PICK d \in ThreadsFor("HP", targetServerID[c]), m \in Message :
          net' = Post(net, "HP", c, d, m) /\ m = Msg("HP REQUEST", 0)
    BY <1>3, MsgType, ZeroIsSlot DEF SendHPReq, Kinds
  <2>2. d \in ServerRanks /\ m.kind = "HP REQUEST" /\ "HP" \in Comms
    BY <1>0, <2>1, RankKinds DEF Comms, Msg
  <2>3. /\ LPSent' = LPSent + 0
        /\ HPSent' = HPSent + 1
    BY <2>1, <2>2, ClientSent
  <2>4. Total(HPAsked)' = Total(HPAsked) + 1
    <3>1. PICK f \in [Clients -> Nat] : f = HPAsked
      BY <1>0, HPAskedType
    <3>2. PICK g \in [Clients -> Nat] : g = HPAsked'
      BY HPAskedTypeNext DEF IInv
    <3>3. UNCHANGED <<numHPReqSamples, warmupCount>> /\ pc' = [pc EXCEPT ![c] = "wait"] /\ pc[c] = "HP"
      BY <1>3 DEF SendHPReq
    <3>4. numHPReqSamples[c] \in Nat /\ warmupCount[c] \in Nat /\ NumWarmupSamples \in Nat
      BY <1>0, SimulationAssumption DEF TypeOK
    <3>5. g[c] = f[c] + 1
      BY <1>0, <3>1, <3>2, <3>3, <3>4 DEF HPAsked
    <3>6. \A b \in Clients \ {c} : g[b] = f[b]
      BY <1>0, <3>1, <3>2, <3>3 DEF HPAsked
    <3>7. Total(g) = Total(f) + 1
      BY <3>5, <3>6, FiniteChannels, TotalUp
    <3> QED BY <3>1, <3>2, <3>7
  <2>5. UNCHANGED <<numLPReqMsgs, numHPReqMsgs, numLPReqSamples>>
    BY <1>3 DEF SendHPReq, serverVars
  <2> QED BY <2>3, <2>4, <2>5, TotalTypes, SentTypes DEF SentInv
<1>4. CASE WaitHPReply(c)
  <2>1. PICK s \in Ranks : /\ Arrived("HP", s, c) /\ net' = Consumed("HP", s, c)
                            /\ CountReply(c, Head(net[<<"HP", s, c>>]))
    BY <1>4 DEF WaitHPReply
  <2>2. PICK m \in Message : m = Head(net[<<"HP", s, c>>]) /\ m.kind = "HP ACK"
    <3>1. <<"HP", s, c>> \in Channels /\ "HP" \in Comms
      BY <1>0, ChannelTuple DEF Comms
    <3>2. PICK q \in Seq(Message) : q = net[<<"HP", s, c>>] /\ q # <<>>
      BY <1>0, <2>1, <3>1 DEF Arrived, Networks
    <3>3. Head(q) = q[1] /\ 1 \in DOMAIN q
      BY <3>2, EmptySeq, LenProperties
    <3>4. Head(q) = Msg("HP ACK", 0)
      BY <3>1, <3>2, <3>3, AcksFromTargetInv DEF AcksFromTarget
    <3>5. Msg("HP ACK", 0) \in Message /\ Msg("HP ACK", 0).kind = "HP ACK"
      BY MsgType, ZeroIsSlot DEF Msg, Kinds
    <3> QED BY <3>2, <3>4, <3>5
  <2>3. LPSent' = LPSent /\ HPSent' = HPSent
    <3>1. c \notin ServerRanks
      BY RankKinds
    <3>2. PICK k \in Comms : k = "HP"
      BY DEF Comms
    <3>3. Arrived(k, s, c) /\ net' = Consumed(k, s, c) /\ m = Head(net[<<k, s, c>>])
      BY <2>1, <2>2, <3>2
    <3>4. m \notin LPRequests[<<k, s, c>>] /\ m \notin HPRequests[<<k, s, c>>]
      BY <1>0, <3>1, InRequests
    <3>5. \A F : Cardinality(Pending(net', F))
                   = Cardinality(Pending(net, F)) - (IF m \in F[<<k, s, c>>] THEN 1 ELSE 0)
      BY <1>0, <3>3, PendingConsumed
    <3> QED BY <3>4, <3>5, SentTypes DEF LPSent, HPSent
  <2>4. HPAsked' = HPAsked
    <3>1. /\ warmupCount' = [warmupCount EXCEPT ![c] = @ + 1]
          /\ numHPReqSamples' = IF warmupCount'[c] > NumWarmupSamples
                                THEN [numHPReqSamples EXCEPT ![c] = @ + 1]
                                ELSE numHPReqSamples
          /\ pc[c] = "wait" /\ pc' = [pc EXCEPT ![c] = "LP"]
      BY <1>4, <2>1, <2>2 DEF CountReply, WaitHPReply
    <3>2. PICK f \in [Clients -> Nat] : f = HPAsked
      BY <1>0, HPAskedType
    <3>3. PICK g \in [Clients -> Nat] : g = HPAsked'
      BY HPAskedTypeNext DEF IInv
    <3>4. numHPReqSamples[c] \in Nat /\ warmupCount[c] \in Nat /\ NumWarmupSamples \in Nat
      BY <1>0, SimulationAssumption DEF TypeOK
    <3>5. warmupCount \in [Clients -> Nat] /\ numHPReqSamples \in [Clients -> Nat]
      BY <1>0 DEF TypeOK
    <3>6. g[c] = f[c]
      <4>1. /\ warmupCount'[c] = warmupCount[c] + 1 /\ pc'[c] = "LP"
            /\ numHPReqSamples'[c] = numHPReqSamples[c]
                 + (IF warmupCount[c] + 1 > NumWarmupSamples THEN 1 ELSE 0)
        BY <1>0, <3>1, <3>4, <3>5
      <4>2. f[c] = numHPReqSamples[c]
                   + (IF warmupCount[c] < NumWarmupSamples THEN warmupCount[c] ELSE NumWarmupSamples)
                   + 1
        BY <3>1, <3>2 DEF HPAsked
      <4>3. g[c] = numHPReqSamples'[c]
                   + (IF warmupCount'[c] < NumWarmupSamples THEN warmupCount'[c] ELSE NumWarmupSamples)
                   + 0
        BY <3>3, <4>1 DEF HPAsked
      <4> QED BY <3>4, <4>1, <4>2, <4>3
    <3>7. \A b \in Clients \ {c} : g[b] = f[b]
      BY <1>0, <3>1, <3>2, <3>3, <3>5 DEF HPAsked
    <3> QED BY <3>2, <3>3, <3>6, <3>7
  <2>5. UNCHANGED <<numLPReqMsgs, numHPReqMsgs, numLPReqSamples>>
    BY <1>4 DEF WaitHPReply, serverVars
  <2> QED BY <2>3, <2>4, <2>5 DEF SentInv
<1>5. CASE Finish(c)
  <2>1. LPSent' = LPSent /\ HPSent' = HPSent
    <3>1. ASSUME NEW ch \in Channels
          PROVE  Msg("SIM COMPLETE", 0) \notin LPRequests[ch] \union HPRequests[ch]
      BY DEF LPRequests, HPRequests, Msg
    <3> QED BY <1>5, <3>1, FinishCounts DEF LPSent, HPSent
  <2>2. UNCHANGED <<numLPReqMsgs, numHPReqMsgs, numLPReqSamples>>
    BY <1>5 DEF Finish, serverVars
  <2>3. HPAsked' = HPAsked
    BY <1>0, <1>5, HPAskedSame DEF Finish
  <2> QED BY <2>1, <2>2, <2>3 DEF SentInv
<1> QED BY <1>1, <1>2, <1>3, <1>4, <1>5 DEF ClientStep

LEMMA HandlerSentInv ==
  ASSUME IInv, SentInv, NEW s \in ServerRanks, NEW p \in Ranks, NEW k \in Comms, NEW m \in Message,
         Arrived(k, p, s), m = Head(net[<<k, p, s>>]), MsgOK(k, p, s, m), Handler(s, p, k, m)
  PROVE  SentInv'
<1>1. /\ numHPReqMsgs' = IF m.kind = "HP REQUEST" THEN [numHPReqMsgs EXCEPT ![s] = @ + 1] ELSE numHPReqMsgs
      /\ numLPReqMsgs' = IF m.kind = "LP REQUEST" THEN [numLPReqMsgs EXCEPT ![s] = @ + 1] ELSE numLPReqMsgs
      /\ UNCHANGED clientVars
  BY DEF Handler, AnswerHPRequest, SpreadHPRequest, AbortOnFullVector, HandleLPRequest,
         HandleServerRequest, HandleHPAck, HandleLPAck, HandleSimComplete, countVars, serverVars
<1>2. /\ m.kind = "LP REQUEST" => LPSent' = LPSent - 1
      /\ m.kind # "LP REQUEST" => LPSent' = LPSent
      /\ m.kind = "HP REQUEST" => HPSent' = HPSent - 1
      /\ m.kind # "HP REQUEST" => HPSent' = HPSent
  <2>1. s \in Ranks /\ s \notin Clients
    BY RankKinds
  <2>2. /\ m \in LPRequests[<<k, p, s>>] <=> m.kind = "LP REQUEST"
        /\ m \in HPRequests[<<k, p, s>>] <=> m.kind = "HP REQUEST"
    <3> DEFINE ch == <<k, p, s>>
    <3>1. ch \in Channels /\ ch[1] = k /\ ch[2] = p /\ ch[3] = s
      BY <2>1, ChannelTuple
    <3> HIDE DEF ch
    <3>2. m \in LPRequests[ch] <=> m.kind = "LP REQUEST"
      BY <3>1 DEF LPRequests, MsgOK
    <3>3. m \in HPRequests[ch] <=> m.kind = "HP REQUEST"
      BY <3>1 DEF HPRequests, MsgOK
    <3> QED BY <3>2, <3>3 DEF ch
  <2>3. ASSUME NEW d \in Ranks, NEW x \in Message
        PROVE  x \notin LPRequests[<<k, s, d>>] /\ x \notin HPRequests[<<k, s, d>>]
    BY <2>1, InRequests
  <2>4. Cardinality(Pending(net', LPRequests)) = Cardinality(Pending(net, LPRequests))
             - (IF m \in LPRequests[<<k, p, s>>] THEN 1 ELSE 0)
    BY <2>3, HandlerTakes
  <2>5. Cardinality(Pending(net', HPRequests)) = Cardinality(Pending(net, HPRequests))
             - (IF m \in HPRequests[<<k, p, s>>] THEN 1 ELSE 0)
    BY <2>3, HandlerTakes
  <2>6. /\ m \in LPRequests[<<k, p, s>>] => LPSent' = LPSent - 1
        /\ m \notin LPRequests[<<k, p, s>>] => LPSent' = LPSent
    BY <2>4, SentTypes DEF LPSent
  <2>7. /\ m \in HPRequests[<<k, p, s>>] => HPSent' = HPSent - 1
        /\ m \notin HPRequests[<<k, p, s>>] => HPSent' = HPSent
    BY <2>5, SentTypes DEF HPSent
  <2> QED BY <2>2, <2>6, <2>7, Zenon
<1>3. HPAsked' = HPAsked /\ UNCHANGED numLPReqSamples
  BY <1>1, HPAskedSame DEF clientVars
<1>4. PICK f \in [ServerRanks -> Nat], g \in [ServerRanks -> Nat] : f = numLPReqMsgs /\ g = numHPReqMsgs
  BY DEF IInv, TypeOK
<1>5. Total([f EXCEPT ![s] = @ + 1]) = Total(f) + 1 /\ Total([g EXCEPT ![s] = @ + 1]) = Total(g) + 1
  BY FiniteChannels, TotalIncrement
<1>6. PICK x \in Nat, y \in Nat, a \in Nat, b \in Nat :
        x = Total(f) /\ y = Total(g) /\ a = LPSent /\ b = HPSent
  BY <1>4, TotalTypes, SentTypes
<1>7. x + a = Total(numLPReqSamples)' /\ y + b = Total(HPAsked)'
  BY <1>3, <1>4, <1>6 DEF SentInv
<1>8. CASE m.kind = "LP REQUEST"
  <2>1. numLPReqMsgs' = [f EXCEPT ![s] = @ + 1] /\ numHPReqMsgs' = g
    BY <1>1, <1>4, <1>8
  <2>2. Total(numLPReqMsgs') = x + 1 /\ Total(numHPReqMsgs') = y
    BY <1>5, <1>6, <2>1
  <2>3. LPSent' = a - 1 /\ HPSent' = b
    BY <1>2, <1>6, <1>8
  <2> QED BY <1>7, <2>2, <2>3 DEF SentInv
<1>9. CASE m.kind = "HP REQUEST"
  <2>1. numHPReqMsgs' = [g EXCEPT ![s] = @ + 1] /\ numLPReqMsgs' = f
    BY <1>1, <1>4, <1>9
  <2>2. Total(numLPReqMsgs') = x /\ Total(numHPReqMsgs') = y + 1
    BY <1>5, <1>6, <2>1
  <2>3. LPSent' = a /\ HPSent' = b - 1
    BY <1>2, <1>6, <1>9
  <2> QED BY <1>7, <2>2, <2>3 DEF SentInv
<1>10. CASE m.kind # "LP REQUEST" /\ m.kind # "HP REQUEST"
  <2>1. numHPReqMsgs' = g /\ numLPReqMsgs' = f
    BY <1>1, <1>4, <1>10
  <2>2. Total(numLPReqMsgs') = x /\ Total(numHPReqMsgs') = y
    BY <1>6, <2>1
  <2>3. LPSent' = a /\ HPSent' = b
    BY <1>2, <1>6, <1>10
  <2> QED BY <1>7, <2>2, <2>3 DEF SentInv
<1> QED BY <1>8, <1>9, <1>10

LEMMA SentNext == IInv /\ IInv' /\ SentInv /\ [Next]_vars => SentInv'
<1> SUFFICES ASSUME IInv, IInv', SentInv, [Next]_vars PROVE SentInv'
  OBVIOUS
<1>1. CASE UNCHANGED vars
  <2>1. UNCHANGED <<net, numLPReqMsgs, numHPReqMsgs, numLPReqSamples, numHPReqSamples, warmupCount, pc>>
    BY <1>1 DEF vars, clientVars, serverVars
  <2> QED BY <2>1 DEF SentInv, LPSent, HPSent, HPAsked
<1>2. ASSUME NEW c \in Clients, ClientStep(c) \/ Signal(c) PROVE SentInv'
  BY <1>2, ClientStepSent
<1>3. ASSUME NEW s \in ServerRanks, ServerStep(s) PROVE SentInv'
  <2> DEFINE k == ServerComm(s)
  <2>1. PICK p \in Ranks : Arrived(k, p, s) /\ Handler(s, p, k, Head(net[<<k, p, s>>]))
    BY <1>3 DEF ServerStep, Handler
  <2>2. k \in Comms /\ s \in Ranks
    BY RankKinds DEF ServerComm, Comms
  <2>3. PICK m \in Message : m = Head(net[<<k, p, s>>]) /\ MsgOK(k, p, s, m)
    BY <2>1, <2>2, Received
  <2> HIDE DEF k
  <2> QED BY <2>1, <2>2, <2>3, HandlerSentInv
<1> QED BY <1>1, <1>2, <1>3 DEF Next, Quiescent

\* The count of the definition is that of a filter
LEMMA InFlightIsPending ==
  ASSUME IInv, NEW k \in Comms, NEW kind, NEW F,
         \A ch \in Channels : \A m \in Message :
           m \in F[ch] <=> ch[1] = k /\ ch[2] \in Clients /\ ch[3] \in ServerRanks /\ m.kind = kind
  PROVE  InFlight(k, kind) = Cardinality(Pending(net, F))
<1> DEFINE chans == {k} \X Clients \X ServerRanks
           P == UNION {{<<ch, n>> : n \in Places(ch, {kind})} : ch \in chans}
<1>1. ASSUME NEW ch \in Channels, NEW j \in DOMAIN net[ch]
      PROVE  net[ch][j] \in F[ch] <=> ch \in chans /\ net[ch][j].kind = kind
  <2>1. net[ch][j] \in Message
    BY ElementOfSeq, LenProperties DEF IInv, TypeOK
  <2>2. ch \in chans <=> ch[1] = k /\ ch[2] \in Clients /\ ch[3] \in ServerRanks
    BY DEF Channels
  <2> HIDE DEF chans
  <2> QED BY <2>1, <2>2
<1>2. chans \subseteq Channels
  BY RankKinds DEF Channels
<1> HIDE DEF chans
<1>3. P = Pending(net, F)
  <2>1. ASSUME NEW w \in P PROVE w \in Pending(net, F)
    <3>1. PICK ch \in chans : \E j \in Places(ch, {kind}) : w = <<ch, j>>
      BY <2>1
    <3>2. PICK j \in DOMAIN net[ch] : w = <<ch, j>> /\ net[ch][j].kind = kind
      BY <3>1 DEF Places
    <3> QED BY <1>1, <1>2, <3>2, PendingAt
  <2>2. ASSUME NEW w \in Pending(net, F) PROVE w \in P
    <3>1. PICK ch \in Channels : \E j \in DOMAIN net[ch] : net[ch][j] \in F[ch] /\ w = <<ch, j>>
      BY <2>2, PendingIs
    <3>2. PICK j \in DOMAIN net[ch] : net[ch][j] \in F[ch] /\ w = <<ch, j>>
      BY <3>1
    <3>3. ch \in chans /\ j \in Places(ch, {kind})
      BY <1>1, <3>2 DEF Places
    <3> QED BY <3>2, <3>3
  <2> QED BY <2>1, <2>2
<1> QED BY <1>3 DEF InFlight, chans

\* The counts in the logs of the servers and in those of the clients agree at
\* every moment, whatever is still queued and also after an abort
\* (src/client.c:137 and 175-180, src/server.c:123 and 154).
THEOREM RequestsAreCounted == Spec => []RequestsCounted
<1>1. IInv /\ SentInv => RequestsCounted
  <2> SUFFICES ASSUME IInv, SentInv PROVE RequestsCounted
    OBVIOUS
  <2>1. InFlight("LP", "LP REQUEST") = LPSent
    <3>1. PICK k \in Comms, kind \in Kinds : k = "LP" /\ kind = "LP REQUEST"
      BY DEF Comms, Kinds
    <3>2. \A ch \in Channels : \A m \in Message : m \in LPRequests[ch] <=>
            ch[1] = k /\ ch[2] \in Clients /\ ch[3] \in ServerRanks /\ m.kind = kind
      BY <3>1 DEF LPRequests
    <3>3. InFlight(k, kind) = LPSent
      BY <3>2, InFlightIsPending DEF LPSent
    <3> QED BY <3>1, <3>3
  <2>2. InFlight("HP", "HP REQUEST") = HPSent
    <3>1. PICK k \in Comms, kind \in Kinds : k = "HP" /\ kind = "HP REQUEST"
      BY DEF Comms, Kinds
    <3>2. \A ch \in Channels : \A m \in Message : m \in HPRequests[ch] <=>
            ch[1] = k /\ ch[2] \in Clients /\ ch[3] \in ServerRanks /\ m.kind = kind
      BY <3>1 DEF HPRequests
    <3>3. InFlight(k, kind) = HPSent
      BY <3>2, InFlightIsPending DEF HPSent
    <3> QED BY <3>1, <3>3
  <2> QED BY <2>1, <2>2 DEF SentInv, RequestsCounted, HPAsked
<1>2. Init => SentInv
  BY SentInit
<1>3. IInv /\ IInv' /\ SentInv /\ [Next]_vars => SentInv'
  BY SentNext
<1> QED BY <1>1, <1>2, <1>3, IInvAlways, PTL DEF Spec

-------------------------------------------------------------------------------
(* Tokens and replies: the invariant                                         *)

\* No thread is asked by more clients than a word of its vector has bits, or the
\* vector has one word only
FewRequests ==
  \/ NumBits <= IntSizeBits
  \/ \A h \in Servers : Cardinality({c \in Clients : targetServerID[c] = h}) <= IntSizeBits

\* The slots in use, of all threads, that hold a request of client c
HeldAt(c) ==
  {x \in ServerRanks \X Slots : /\ x[2] \notin vector[x[1]]
                                /\ continuations[x[1]][x[2]].originClientRank = c}

TokenCount(c) == Cardinality(Pending(net, TokenFilter(c)))
ReplyCount(s, t) == Cardinality(Pending(net, ReplyFilter(s, t)))

\* A waiting client has one token, and any other client none
TokenInv ==
  \A c \in Clients : TokenCount(c) + Cardinality(HeldAt(c)) = IF pc[c] = "wait" THEN 1 ELSE 0

\* A slot in use belongs to a client of its thread and lacks as many replies as are
\* on their way
SlotInv(s, t) ==
  IF t \in vector[s] THEN ReplyCount(s, t) = 0
  ELSE /\ SlotOwned(s, t)
       /\ ReplyCount(s, t) > 0
       /\ continuations[s][t].numRepliesNeeded = continuations[s][t].replyCount + ReplyCount(s, t)

\* The slots in use lie in the first word, where getFirstOne finds the first that is
\* free
VectorInv ==
  \A s \in ServerRanks : Padded(vector[s]) /\ Slots \ vector[s] \subseteq 0 .. IntSizeBits - 1

SlotsInv == \A s \in ServerRanks, t \in Slots : SlotInv(s, t)

Counts == TokenInv /\ SlotsInv /\ VectorInv

\* When MPI has aborted the job, what was counted up to that step no longer holds
CountInv == (~aborted => Counts) /\ AbortOnlyWhenFull

LEMMA CountTypes ==
  ASSUME net \in Networks
  PROVE  /\ \A c : TokenCount(c) \in Nat
         /\ \A s, t : ReplyCount(s, t) \in Nat
<1>1. PICK n \in Networks : n = net
  OBVIOUS
<1> QED BY <1>1, PendingFinite DEF TokenCount, ReplyCount

LEMMA CountTypesNext ==
  ASSUME net' \in Networks
  PROVE  /\ \A c : TokenCount(c)' \in Nat
         /\ \A s, t : ReplyCount(s, t)' \in Nat
<1>1. PICK n \in Networks : n = net'
  OBVIOUS
<1> QED BY <1>1, PendingFinite DEF TokenCount, ReplyCount

LEMMA FiniteSlots ==
  /\ IsFiniteSet(ServerRanks \X Slots)
  /\ \A S : S \subseteq ServerRanks \X Slots => IsFiniteSet(S) /\ Cardinality(S) \in Nat
<1>1. IsFiniteSet(ServerRanks \X Slots)
  BY FiniteChannels, FiniteVector, FS_Product
<1> QED BY <1>1, FS_Subset, FS_CardinalityType

LEMMA HeldFinite ==
  ASSUME NEW c
  PROVE  IsFiniteSet(HeldAt(c)) /\ Cardinality(HeldAt(c)) \in Nat
BY FiniteSlots DEF HeldAt

Waits(c) == IF pc[c] = "wait" THEN 1 ELSE 0

\* A step that gives or takes a token with the waiting, and no slot
LEMMA CountFrame ==
  ASSUME IInv, Counts, net' \in Networks,
         \A c \in Clients : TokenCount(c)' = TokenCount(c) + Waits(c)' - Waits(c),
         \A s \in ServerRanks, t \in Slots : ReplyCount(s, t)' = ReplyCount(s, t),
         UNCHANGED <<vector, targetServerID>>,
         \A s \in ServerRanks, t \in Slots :
           t \notin vector[s] => continuations'[s][t] = continuations[s][t]
  PROVE  Counts'
<1>1. ASSUME NEW c \in Clients PROVE HeldAt(c)' = HeldAt(c)
  <2>1. \A x \in ServerRanks \X Slots :
          /\ x[2] \notin vector'[x[1]] /\ continuations'[x[1]][x[2]].originClientRank = c
          <=> x[2] \notin vector[x[1]] /\ continuations[x[1]][x[2]].originClientRank = c
    OBVIOUS
  <2> QED BY <2>1 DEF HeldAt
<1>2. TokenInv'
  <2> SUFFICES ASSUME NEW c \in Clients
               PROVE  TokenCount(c)' + Cardinality(HeldAt(c))' = Waits(c)'
    BY DEF TokenInv, Waits
  <2>1. TokenCount(c) + Cardinality(HeldAt(c)) = Waits(c)
    BY DEF Counts, TokenInv, Waits
  <2>2. Cardinality(HeldAt(c))' = Cardinality(HeldAt(c))
    BY <1>1
  <2>3. TokenCount(c) \in Nat /\ Cardinality(HeldAt(c)) \in Nat /\ Waits(c) \in Nat /\ Waits(c)' \in Nat
    BY CountTypes, HeldFinite DEF IInv, TypeOK, Networks, Waits
  <2>4. TokenCount(c)' = TokenCount(c) + Waits(c)' - Waits(c)
    OBVIOUS
  <2> QED BY <2>1, <2>2, <2>3, <2>4
<1>3. SlotsInv'
  BY DEF Counts, SlotsInv, SlotInv, SlotOwned
<1>4. VectorInv'
  BY DEF Counts, VectorInv
<1> QED BY <1>2, <1>3, <1>4 DEF Counts

LEMMA CountInit == Init => CountInv
<1> SUFFICES ASSUME Init PROVE CountInv
  OBVIOUS
<1>1. ~aborted /\ (\A ch \in Channels : net[ch] = <<>>) /\ vector = [s \in ServerRanks |-> Positions]
  BY DEF Init, ServerInit, createBitVector
<1>2. \A F : Cardinality(Pending(net, F)) = 0
  <2>1. \A F : Pending(net, F) = {}
    BY <1>1 DEF Pending
  <2> QED BY <2>1, FS_EmptySet
<1>3. \A s \in ServerRanks, t \in Slots : t \in vector[s]
  BY <1>1, VectorCoversSlots
<1>4. TokenInv
  <2> SUFFICES ASSUME NEW c \in Clients PROVE TokenCount(c) + Cardinality(HeldAt(c)) = 0 /\ pc[c] # "wait"
    BY DEF TokenInv
  <2>1. HeldAt(c) = {}
    BY <1>3 DEF HeldAt
  <2>2. Cardinality(HeldAt(c)) = 0 /\ TokenCount(c) = 0
    BY <1>2, <2>1, FS_EmptySet DEF TokenCount
  <2>3. pc[c] = "LP"
    BY DEF Init, ClientInit
  <2> QED BY <2>2, <2>3
<1>5. SlotsInv
  BY <1>2, <1>3 DEF SlotsInv, SlotInv, ReplyCount
<1>6. VectorInv
  BY <1>1, <1>3 DEF VectorInv, Padded
<1> QED BY <1>1, <1>4, <1>5, <1>6 DEF CountInv, Counts, AbortOnlyWhenFull

\* What a message does to the counts, and what it does not: a server thread cannot
\* send a request, nor a client a server request or an ACK
LEMMA ClientCounts ==
  ASSUME IInv, NEW c \in Clients, NEW k \in Comms, NEW d \in ServerRanks, NEW m \in Message,
         net' = Post(net, k, c, d, m)
  PROVE  /\ \A b \in Clients :
              TokenCount(b)' = TokenCount(b) + (IF b = c /\ IsHP(k) /\ IsRequest(m) THEN 1 ELSE 0)
         /\ \A s \in ServerRanks, t \in Slots : ReplyCount(s, t)' = ReplyCount(s, t)
<1>1. PICK n \in Networks : n = net
  BY DEF IInv, TypeOK, Networks
<1>2. c \in Ranks /\ d \in Ranks /\ c \notin ServerRanks /\ d \notin Clients
  BY RankKinds
<1>3. \A F : Cardinality(Pending(net', F))
               = Cardinality(Pending(n, F)) + (IF m \in F[<<k, c, d>>] THEN 1 ELSE 0)
  BY <1>1, <1>2, PendingPost
<1>4. ASSUME NEW b \in Clients
      PROVE  TokenCount(b)' = TokenCount(b) + (IF b = c /\ IsHP(k) /\ IsRequest(m) THEN 1 ELSE 0)
  <2>1. m \in TokenFilter(b)[<<k, c, d>>] <=> b = c /\ IsHP(k) /\ IsRequest(m)
    BY <1>2, InTokenFilter
  <2> QED BY <1>1, <1>3, <2>1 DEF TokenCount
<1>5. ASSUME NEW s \in ServerRanks, NEW t \in Slots PROVE ReplyCount(s, t)' = ReplyCount(s, t)
  <2>1. m \notin ReplyFilter(s, t)[<<k, c, d>>]
    BY <1>2, InReplyFilter
  <2>2. Cardinality(Pending(n, ReplyFilter(s, t))) \in Nat
    BY PendingFinite
  <2> QED BY <1>1, <1>3, <2>1, <2>2 DEF ReplyCount
<1> QED BY <1>4, <1>5

LEMMA CountClientStep ==
  ASSUME IInv, IInv', Counts, NEW c \in Clients, ClientStep(c) \/ Signal(c)
  PROVE  Counts'
<1>0. /\ net \in Networks /\ net' \in Networks /\ targetServerID[c] \in Servers
      /\ pc \in [Clients -> {"LP", "HP", "wait", "done"}]
      /\ \A b \in Clients : TokenCount(b) \in Nat
      /\ c \in Ranks /\ c \notin ServerRanks
  BY CountTypes, RankKinds DEF IInv, TypeOK, Networks
<1>1. CASE SendLPReq(c)
  <2>1. PICK k \in Comms, d \in ServerRanks, m \in Message :
          net' = Post(net, k, c, d, m) /\ ~IsRequest(m)
    <3>1. Msg("LP REQUEST", 0) \in Message /\ ~IsRequest(Msg("LP REQUEST", 0)) /\ "LP" \in Comms
      BY MsgType, ZeroIsSlot DEF Kinds, IsRequest, Msg, Comms
    <3> QED BY <1>0, <1>1, <3>1, RankKinds DEF SendLPReq
  <2>2. /\ \A b \in Clients : TokenCount(b)' = TokenCount(b)
        /\ \A s \in ServerRanks, t \in Slots : ReplyCount(s, t)' = ReplyCount(s, t)
    BY <1>0, <2>1, ClientCounts
  <2>3. \A b \in Clients : Waits(b)' = Waits(b)
    BY <1>0, <1>1 DEF SendLPReq, Waits
  <2>4. \A b \in Clients : TokenCount(b)' = TokenCount(b) + Waits(b)' - Waits(b)
    BY <1>0, <2>2, <2>3 DEF Waits
  <2>5. UNCHANGED <<vector, targetServerID, continuations>>
    BY <1>1 DEF SendLPReq, serverVars
  <2> QED BY <1>0, <2>2, <2>4, <2>5, CountFrame
<1>2. CASE SkipLPReq(c) \/ SkipHPReq(c) \/ Signal(c)
  <2>1. UNCHANGED <<net, vector, targetServerID, continuations>>
    BY <1>2 DEF SkipLPReq, SkipHPReq, Signal, serverVars
  <2>2. \A b \in Clients : Waits(b)' = Waits(b)
    BY <1>0, <1>2 DEF SkipLPReq, SkipHPReq, Signal, Waits
  <2>3. /\ \A b \in Clients : TokenCount(b)' = TokenCount(b)
        /\ \A s \in ServerRanks, t \in Slots : ReplyCount(s, t)' = ReplyCount(s, t)
    BY <2>1 DEF TokenCount, ReplyCount
  <2>4. \A b \in Clients : TokenCount(b)' = TokenCount(b) + Waits(b)' - Waits(b)
    BY <1>0, <2>2, <2>3 DEF Waits
  <2> QED BY <1>0, <2>1, <2>3, <2>4, CountFrame
<1>3. CASE SendHPReq(c)
  <2>1. PICK k \in Comms, d \in ServerRanks, m \in Message :
          net' = Post(net, k, c, d, m) /\ IsHP(k) /\ IsRequest(m)
    <3>1. /\ Msg("HP REQUEST", 0) \in Message /\ IsRequest(Msg("HP REQUEST", 0))
          /\ "HP" \in Comms /\ IsHP("HP")
      BY MsgType, ZeroIsSlot DEF Kinds, IsRequest, Msg, Comms, IsHP
    <3> QED BY <1>0, <1>3, <3>1, RankKinds DEF SendHPReq
  <2>2. /\ \A b \in Clients : TokenCount(b)' = TokenCount(b) + (IF b = c THEN 1 ELSE 0)
        /\ \A s \in ServerRanks, t \in Slots : ReplyCount(s, t)' = ReplyCount(s, t)
    BY <1>0, <2>1, ClientCounts
  <2>3. \A b \in Clients : Waits(b)' = Waits(b) + (IF b = c THEN 1 ELSE 0)
    <3>1. pc[c] = "HP" /\ pc' = [pc EXCEPT ![c] = "wait"]
      BY <1>3 DEF SendHPReq
    <3>2. pc[c] # "wait" /\ pc'[c] = "wait" /\ \A b \in Clients : b # c => pc'[b] = pc[b]
      BY <1>0, <3>1
    <3> QED BY <3>2 DEF Waits
  <2>4. \A b \in Clients : TokenCount(b)' = TokenCount(b) + Waits(b)' - Waits(b)
    BY <1>0, <2>2, <2>3 DEF Waits
  <2>5. UNCHANGED <<vector, targetServerID, continuations>>
    BY <1>3 DEF SendHPReq, serverVars
  <2> QED BY <1>0, <2>2, <2>4, <2>5, CountFrame
<1>4. CASE WaitHPReply(c)
  <2>1. PICK k \in Comms, s \in Ranks : /\ k = "HP" /\ IsHP(k)
                                        /\ Arrived(k, s, c) /\ net' = Consumed(k, s, c)
    BY <1>4 DEF WaitHPReply, Comms, IsHP
  <2>2. PICK m \in Message : m = Head(net[<<k, s, c>>]) /\ MsgOK(k, s, c, m)
    BY <1>0, <2>1, Received
  <2>3. s \in ServerRanks
    <3>1. PICK q \in Seq(Message) : q = net[<<k, s, c>>] /\ q # <<>>
      BY <1>0, <2>1, ChannelTuple DEF Arrived, Networks
    <3>2. 1 \in DOMAIN q
      BY <3>1, EmptySeq, LenProperties
    <3>3. s \in HPRanks(targetServerID[c])
      BY <3>1, <3>2, AcksFromTargetInv DEF AcksFromTarget
    <3> QED BY <1>0, <3>3, RankKinds DEF ThreadsFor, Comms
  <2>4. \A F : Cardinality(Pending(net', F))
                 = Cardinality(Pending(net, F)) - (IF m \in F[<<k, s, c>>] THEN 1 ELSE 0)
    BY <1>0, <2>1, <2>2, PendingConsumed
  <2>5. ASSUME NEW b \in Clients PROVE TokenCount(b)' = TokenCount(b) - (IF b = c THEN 1 ELSE 0)
    <3>1. m \in TokenFilter(b)[<<k, s, c>>] <=> b = c
      BY <1>0, <2>1, <2>3, InTokenFilter
    <3> QED BY <2>4, <3>1 DEF TokenCount
  <2>6. ASSUME NEW r \in ServerRanks, NEW t \in Slots PROVE ReplyCount(r, t)' = ReplyCount(r, t)
    <3>1. m \notin ReplyFilter(r, t)[<<k, s, c>>]
      BY <1>0, InReplyFilter
    <3>2. ReplyCount(r, t) \in Nat
      BY <1>0, CountTypes
    <3> QED BY <2>4, <3>1, <3>2 DEF ReplyCount
  <2>7. \A b \in Clients : Waits(b)' = Waits(b) - (IF b = c THEN 1 ELSE 0)
    BY <1>0, <1>4 DEF WaitHPReply, Waits
  <2>8. \A b \in Clients : TokenCount(b)' = TokenCount(b) + Waits(b)' - Waits(b)
    BY <1>0, <2>5, <2>7 DEF Waits
  <2>9. UNCHANGED <<vector, targetServerID, continuations>>
    BY <1>4 DEF WaitHPReply, serverVars
  <2> QED BY <1>0, <2>6, <2>8, <2>9, CountFrame
<1>5. CASE Finish(c)
  <2>1. ASSUME NEW ch \in Channels, ch[2] = c, ch[3] \in ServerRanks
        PROVE  /\ \A b \in Clients : Msg("SIM COMPLETE", 0) \notin TokenFilter(b)[ch]
               /\ \A s, t : Msg("SIM COMPLETE", 0) \notin ReplyFilter(s, t)[ch]
    <3>1. ch[2] \notin ServerRanks /\ ch[3] \notin Clients /\ Msg("SIM COMPLETE", 0).kind # "HP REQUEST"
      BY <1>0, <2>1, RankKinds DEF Msg
    <3> QED BY <3>1 DEF TokenFilter, ReplyFilter
  <2>2. \A b \in Clients : TokenCount(b)' = TokenCount(b)
    BY <1>5, <2>1, FinishCounts DEF TokenCount
  <2>3. \A s \in ServerRanks, t \in Slots : ReplyCount(s, t)' = ReplyCount(s, t)
    BY <1>5, <2>1, FinishCounts DEF ReplyCount
  <2>4. \A b \in Clients : Waits(b)' = Waits(b)
    BY <1>0, <1>5 DEF Finish, Waits
  <2>5. \A b \in Clients : TokenCount(b)' = TokenCount(b) + Waits(b)' - Waits(b)
    BY <1>0, <2>2, <2>4 DEF Waits
  <2>6. UNCHANGED <<vector, targetServerID, continuations>>
    BY <1>5 DEF Finish, serverVars
  <2> QED BY <1>0, <2>3, <2>5, <2>6, CountFrame
<1> QED BY <1>1, <1>2, <1>3, <1>4, <1>5 DEF ClientStep

\* What a server thread takes and sends counts as
LEMMA TakenMessage ==
  ASSUME NEW s \in ServerRanks, NEW p \in Ranks, NEW k \in Comms, NEW m \in Message
  PROVE  /\ \A c \in Clients : m \in TokenFilter(c)[<<k, p, s>>] <=> IsHP(k) /\ p = c /\ IsRequest(m)
         /\ \A r \in ServerRanks, t \in Slots :
              m \in ReplyFilter(r, t)[<<k, p, s>>]
                <=> /\ IsHP(k) /\ p \in ServerRanks /\ m.tag = t
                    /\ (p = r /\ IsServerRequest(m)) \/ (s = r /\ IsAck(m))
BY RankKinds, InTokenFilter, InReplyFilter

LEMMA SentMessage ==
  ASSUME NEW s \in ServerRanks, NEW d \in Ranks, NEW k \in Comms, NEW x \in Message
  PROVE  /\ \A c \in Clients : x \in TokenFilter(c)[<<k, s, d>>] <=> IsHP(k) /\ d = c
         /\ \A r \in ServerRanks, t \in Slots :
              x \in ReplyFilter(r, t)[<<k, s, d>>]
                <=> /\ IsHP(k) /\ d \in ServerRanks /\ x.tag = t
                    /\ (s = r /\ IsServerRequest(x)) \/ (d = r /\ IsAck(x))
BY RankKinds, InTokenFilter, InReplyFilter

\* Only high priority threads use slots
LEMMA UsedSlots ==
  ASSUME IInv, Counts, NEW s \in ServerRanks, NEW t \in Slots, t \notin vector[s]
  PROVE  /\ continuations[s][t].originClientRank \in Clients
         /\ s \in HPRanks(targetServerID[continuations[s][t].originClientRank])
         /\ IsHP(ServerComm(s))
<1>1. SlotOwned(s, t)
  BY DEF Counts, SlotsInv, SlotInv
<1>2. PICK c \in Clients : c = continuations[s][t].originClientRank /\ s \in HPRanks(targetServerID[c])
  BY <1>1 DEF SlotOwned
<1>3. targetServerID[c] \in Servers
  BY DEF IInv, TypeOK
<1>4. PICK k \in Comms : k = "HP"
  BY DEF Comms
<1>5. s \in ThreadsFor(k, targetServerID[c])
  BY <1>2, <1>4 DEF ThreadsFor
<1>6. ServerComm(s) = k
  BY <1>3, <1>5, ThreadsListen
<1> QED BY <1>2, <1>4, <1>6 DEF IsHP

\* A low priority thread
LEMMA CountLPThread ==
  ASSUME IInv, net' \in Networks, Counts, NEW s \in ServerRanks, NEW p \in Ranks, NEW k \in Comms,
         NEW m \in Message, k = ServerComm(s), Arrived(k, p, s), m = Head(net[<<k, p, s>>]),
         MsgOK(k, p, s, m), Handler(s, p, k, m), ~IsHP(k)
  PROVE  Counts'
<1>1. s \in Ranks /\ m.tag \in Slots
  BY RankKinds DEF Message
<1>2. ASSUME NEW F, \A d \in Ranks, x \in Message : x \notin F[<<k, s, d>>], m \notin F[<<k, p, s>>]
      PROVE  Cardinality(Pending(net', F)) = Cardinality(Pending(net, F))
  <2>1. PICK n \in Networks : n = net
    BY DEF IInv, TypeOK, Networks
  <2>2. Cardinality(Pending(net, F)) \in Nat
    BY <2>1, PendingFinite
  <2> QED BY <1>2, <2>2, HandlerTakes
<1>3. ASSUME NEW c \in Clients PROVE TokenCount(c)' = TokenCount(c)
  <2>1. /\ m \notin TokenFilter(c)[<<k, p, s>>]
        /\ \A d \in Ranks, x \in Message : x \notin TokenFilter(c)[<<k, s, d>>]
    BY TakenMessage, SentMessage
  <2> QED BY <1>2, <2>1 DEF TokenCount
<1>4. ASSUME NEW r \in ServerRanks, NEW t \in Slots PROVE ReplyCount(r, t)' = ReplyCount(r, t)
  <2>1. /\ m \notin ReplyFilter(r, t)[<<k, p, s>>]
        /\ \A d \in Ranks, x \in Message : x \notin ReplyFilter(r, t)[<<k, s, d>>]
    BY TakenMessage, SentMessage
  <2> QED BY <1>2, <2>1 DEF ReplyCount
<1>5. /\ UNCHANGED <<pc, targetServerID>>
      /\ \/ UNCHANGED <<vector, continuations>>
         \/ /\ continuations' = [continuations EXCEPT ![s][m.tag] = Replied(s, m.tag)]
            /\ vector' = [vector EXCEPT ![s] = setBit(@, m.tag)] \/ vector' = vector
  <2>1. k # "HP"
    BY DEF IsHP
  <2> QED BY <2>1 DEF Handler, AnswerHPRequest, SpreadHPRequest, AbortOnFullVector, HandleLPRequest,
         HandleServerRequest, HandleHPAck, HandleLPAck, HandleSimComplete, clientVars, slotVars,
         countVars, serverVars, MsgOK
<1>6. m.tag \in vector[s]
  BY <1>1, UsedSlots
<1>7. UNCHANGED vector
  <2>1. vector \in [ServerRanks -> SUBSET Positions]
    BY DEF IInv, TypeOK
  <2>2. setBit(vector[s], m.tag) = vector[s]
    BY <1>6 DEF setBit
  <2> QED BY <1>5, <2>1, <2>2
<1>8. \A r \in ServerRanks, t \in Slots :
           t \notin vector[r] => continuations'[r][t] = continuations[r][t]
  <2>1. continuations \in [ServerRanks -> [Slots -> Continuation]]
    BY DEF IInv, TypeOK
  <2> QED BY <1>1, <1>5, <1>6, <2>1
<1>9. \A c \in Clients : TokenCount(c)' = TokenCount(c) + Waits(c)' - Waits(c)
  BY <1>3, <1>5, CountTypes DEF Waits, IInv, TypeOK, Networks
<1> QED BY <1>4, <1>5, <1>7, <1>8, <1>9, CountFrame

\* The steps of a high priority thread that use no slot
LEMMA CountSimComplete ==
  ASSUME IInv, net' \in Networks, Counts, NEW s \in ServerRanks, NEW p \in Ranks, NEW k \in Comms,
         NEW m \in Message, Arrived(k, p, s), m = Head(net[<<k, p, s>>]),
         MsgOK(k, p, s, m), HandleSimComplete(s, p, k, m)
  PROVE  Counts'
<1>1. s \in Ranks /\ p \notin ServerRanks /\ ~IsRequest(m) /\ net \in Networks
  BY RankKinds DEF HandleSimComplete, MsgOK, IsRequest, IInv, TypeOK, Networks
<1>2. \A F : Cardinality(Pending(net', F)) = Cardinality(Pending(net, F))
                - (IF m \in F[<<k, p, s>>] THEN 1 ELSE 0)
  BY <1>1, ReceivedOnly DEF HandleSimComplete
<1>3. UNCHANGED <<pc, targetServerID, vector, continuations>>
  BY DEF HandleSimComplete, clientVars, slotVars
<1>4. ASSUME NEW c \in Clients PROVE TokenCount(c)' = TokenCount(c) + Waits(c)' - Waits(c)
  <2>1. m \notin TokenFilter(c)[<<k, p, s>>]
    BY <1>1, TakenMessage
  <2>2. TokenCount(c) \in Nat /\ Waits(c) \in Nat /\ Waits(c)' = Waits(c)
    BY <1>1, <1>3, CountTypes DEF Waits
  <2> QED BY <1>2, <2>1, <2>2 DEF TokenCount
<1>5. ASSUME NEW r \in ServerRanks, NEW t \in Slots PROVE ReplyCount(r, t)' = ReplyCount(r, t)
  <2>1. m \notin ReplyFilter(r, t)[<<k, p, s>>]
    BY <1>1, TakenMessage
  <2>2. ReplyCount(r, t) \in Nat
    BY <1>1, CountTypes
  <2> QED BY <1>2, <2>1, <2>2 DEF ReplyCount
<1> QED BY <1>3, <1>4, <1>5, CountFrame

LEMMA CountAnswer ==
  ASSUME IInv, net' \in Networks, Counts, NEW s \in ServerRanks, NEW p \in Ranks, NEW k \in Comms,
         NEW m \in Message, Arrived(k, p, s), m = Head(net[<<k, p, s>>]),
         MsgOK(k, p, s, m), AnswerHPRequest(s, p, k, m)
  PROVE  Counts'
<1>1. /\ s \in Ranks /\ p \in Clients /\ p \notin ServerRanks /\ IsHP(k) /\ IsRequest(m)
      /\ net \in Networks
  BY RankKinds DEF AnswerHPRequest, MsgOK, IsRequest, IsHP, IInv, TypeOK, Networks
<1>2. PICK x \in Message : net' = Post(Consumed(k, p, s), k, s, p, x)
  BY MsgType, ZeroIsSlot DEF AnswerHPRequest, Kinds
<1>3. \A F : Cardinality(Pending(net', F)) = Cardinality(Pending(net, F))
                - (IF m \in F[<<k, p, s>>] THEN 1 ELSE 0) + (IF x \in F[<<k, s, p>>] THEN 1 ELSE 0)
  BY <1>1, <1>2, ReceivedAndPosted
<1>4. UNCHANGED <<pc, targetServerID, vector, continuations>>
  BY DEF AnswerHPRequest, clientVars, slotVars
<1>5. ASSUME NEW c \in Clients PROVE TokenCount(c)' = TokenCount(c) + Waits(c)' - Waits(c)
  <2>1. m \in TokenFilter(c)[<<k, p, s>>] <=> x \in TokenFilter(c)[<<k, s, p>>]
    BY <1>1, TakenMessage, SentMessage
  <2>2. TokenCount(c) \in Nat /\ Waits(c) \in Nat /\ Waits(c)' = Waits(c)
    BY <1>1, <1>4, CountTypes DEF Waits
  <2> QED BY <1>3, <2>1, <2>2 DEF TokenCount
<1>6. ASSUME NEW r \in ServerRanks, NEW t \in Slots PROVE ReplyCount(r, t)' = ReplyCount(r, t)
  <2>1. m \notin ReplyFilter(r, t)[<<k, p, s>>] /\ x \notin ReplyFilter(r, t)[<<k, s, p>>]
    BY <1>1, TakenMessage, SentMessage
  <2>2. ReplyCount(r, t) \in Nat
    BY <1>1, CountTypes
  <2> QED BY <1>3, <2>1, <2>2 DEF ReplyCount
<1> QED BY <1>4, <1>5, <1>6, CountFrame

LEMMA CountServerRequest ==
  ASSUME IInv, net' \in Networks, Counts, NEW s \in ServerRanks, NEW p \in Ranks, NEW k \in Comms,
         NEW m \in Message, Arrived(k, p, s), m = Head(net[<<k, p, s>>]),
         MsgOK(k, p, s, m), HandleServerRequest(s, p, k, m), IsHP(k)
  PROVE  Counts'
<1>1. m.kind = "HP SERVER REQUEST" /\ net' = Post(Consumed(k, p, s), k, s, p, Msg("HP ACK", m.tag))
  <2>1. m.kind # "LP SERVER REQUEST"
    BY DEF MsgOK, IsHP
  <2> QED BY <2>1 DEF HandleServerRequest
<1>2. /\ s \in Ranks /\ p \in ServerRanks /\ p \notin Clients /\ net \in Networks
      /\ IsServerRequest(m) /\ ~IsRequest(m) /\ ~IsAck(m) /\ m.tag \in Slots
  BY <1>1, RankKinds DEF MsgOK, Listening, IsRequest, IsServerRequest, IsAck, IInv, TypeOK,
     Networks, Message
<1>3. PICK x \in Message : /\ net' = Post(Consumed(k, p, s), k, s, p, x)
                           /\ IsAck(x) /\ ~IsServerRequest(x) /\ x.tag = m.tag
  <2>1. Msg("HP ACK", m.tag) \in Message
    BY <1>2, MsgType DEF Kinds
  <2> QED BY <1>1, <2>1 DEF Msg, IsAck, IsServerRequest
<1>4. \A F : Cardinality(Pending(net', F)) = Cardinality(Pending(net, F))
                - (IF m \in F[<<k, p, s>>] THEN 1 ELSE 0) + (IF x \in F[<<k, s, p>>] THEN 1 ELSE 0)
  BY <1>2, <1>3, ReceivedAndPosted
<1>5. UNCHANGED <<pc, targetServerID, vector, continuations>>
  BY DEF HandleServerRequest, clientVars, serverVars
<1>6. ASSUME NEW c \in Clients PROVE TokenCount(c)' = TokenCount(c) + Waits(c)' - Waits(c)
  <2>1. m \notin TokenFilter(c)[<<k, p, s>>] /\ x \notin TokenFilter(c)[<<k, s, p>>]
    BY <1>2, TakenMessage, SentMessage
  <2>2. TokenCount(c) \in Nat /\ Waits(c) \in Nat /\ Waits(c)' = Waits(c)
    BY <1>2, <1>5, CountTypes DEF Waits
  <2> QED BY <1>4, <2>1, <2>2 DEF TokenCount
<1>7. ASSUME NEW r \in ServerRanks, NEW t \in Slots PROVE ReplyCount(r, t)' = ReplyCount(r, t)
  <2>1. m \in ReplyFilter(r, t)[<<k, p, s>>] <=> x \in ReplyFilter(r, t)[<<k, s, p>>]
    BY <1>2, <1>3, TakenMessage, SentMessage
  <2>2. ReplyCount(r, t) \in Nat
    BY <1>2, CountTypes
  <2> QED BY <1>4, <2>1, <2>2 DEF ReplyCount
<1> QED BY <1>5, <1>6, <1>7, CountFrame

\* A message at the head of its channel is counted
LEMMA ArrivedIsCounted ==
  ASSUME net \in Networks, NEW k \in Comms, NEW p \in Ranks, NEW s \in Ranks, Arrived(k, p, s),
         NEW F, Head(net[<<k, p, s>>]) \in F[<<k, p, s>>]
  PROVE  Cardinality(Pending(net, F)) \in Nat \ {0}
<1>1. PICK n \in Networks : n = net
  OBVIOUS
<1>2. <<k, p, s>> \in Channels /\ n[<<k, p, s>>] \in Seq(Message) /\ n[<<k, p, s>>] # <<>>
  BY <1>1, ChannelTuple DEF Arrived, Networks
<1>3. 1 \in DOMAIN n[<<k, p, s>>] /\ n[<<k, p, s>>][1] \in F[<<k, p, s>>]
  BY <1>1, <1>2, EmptySeq, LenProperties
<1>4. <<<<k, p, s>>, 1>> \in Pending(n, F)
  BY <1>2, <1>3, PendingAt
<1>5. IsFiniteSet(Pending(n, F)) /\ Cardinality(Pending(n, F)) \in Nat
  BY PendingFinite
<1>6. Cardinality(Pending(n, F)) # 0
  BY <1>4, <1>5, FS_EmptySet
<1> QED BY <1>1, <1>5, <1>6

\* An ACK for a slot in use
LEMMA CountHPAck ==
  ASSUME IInv, net' \in Networks, Counts, NEW s \in ServerRanks, NEW p \in Ranks, NEW k \in Comms,
         NEW m \in Message, Arrived(k, p, s), m = Head(net[<<k, p, s>>]),
         MsgOK(k, p, s, m), HandleHPAck(s, p, k, m)
  PROVE  Counts'
<1> DEFINE t == m.tag
           c == continuations[s][t].originClientRank
<1>1. /\ s \in Ranks /\ p \in ServerRanks /\ p \notin Clients /\ net \in Networks /\ t \in Slots
      /\ IsHP(k) /\ IsAck(m) /\ ~IsRequest(m) /\ ~IsServerRequest(m)
  BY RankKinds DEF HandleHPAck, MsgOK, Listening, IsHP, IsRequest, IsServerRequest, IsAck, IInv, TypeOK,
     Networks, Message
<1>2. \A r \in ServerRanks, u \in Slots :
        m \in ReplyFilter(r, u)[<<k, p, s>>] <=> r = s /\ u = t
  BY <1>1, TakenMessage
<1>3. \A b \in Clients : m \notin TokenFilter(b)[<<k, p, s>>]
  BY <1>1, TakenMessage
<1>4. ReplyCount(s, t) > 0 /\ ReplyCount(s, t) \in Nat
  <2>1. PICK F : F = ReplyFilter(s, t)
    OBVIOUS
  <2>2. Cardinality(Pending(net, F)) \in Nat \ {0}
    BY <1>1, <1>2, <2>1, ArrivedIsCounted
  <2> QED BY <2>1, <2>2 DEF ReplyCount
<1>5. /\ t \notin vector[s] /\ c \in Clients /\ SlotOwned(s, t)
      /\ continuations[s][t].numRepliesNeeded = continuations[s][t].replyCount + ReplyCount(s, t)
  <2>1. SlotInv(s, t)
    BY <1>1 DEF Counts, SlotsInv
  <2>2. t \notin vector[s]
    BY <1>4, <2>1 DEF SlotInv
  <2> QED BY <2>1, <2>2 DEF SlotInv, SlotOwned
<1>6. PICK cont \in Continuation :
        /\ cont = Replied(s, t)
        /\ cont.replyCount = continuations[s][t].replyCount + 1
        /\ cont.numRepliesNeeded = continuations[s][t].numRepliesNeeded
        /\ cont.originClientRank = c
        /\ continuations[s][t].replyCount \in Nat /\ continuations[s][t].numRepliesNeeded \in Nat
  <2>1. continuations[s][t] \in Continuation
    BY <1>1 DEF IInv, TypeOK
  <2>2. Replied(s, t) = [continuations[s][t] EXCEPT !.replyCount = @ + 1]
    BY DEF Replied
  <2>3. PICK old \in Continuation : old = continuations[s][t]
    BY <2>1
  <2>4. PICK new \in Continuation : /\ new = [old EXCEPT !.replyCount = @ + 1]
                                    /\ new.replyCount = old.replyCount + 1
                                    /\ new.numRepliesNeeded = old.numRepliesNeeded
                                    /\ new.originClientRank = old.originClientRank
    <3>1. /\ [old EXCEPT !.replyCount = @ + 1] \in Continuation
          /\ [old EXCEPT !.replyCount = @ + 1].replyCount = old.replyCount + 1
          /\ [old EXCEPT !.replyCount = @ + 1].numRepliesNeeded = old.numRepliesNeeded
          /\ [old EXCEPT !.replyCount = @ + 1].originClientRank = old.originClientRank
      BY DEF Continuation
    <3> QED BY <3>1
  <2>5. old.replyCount \in Nat /\ old.numRepliesNeeded \in Nat
    BY DEF Continuation
  <2> QED BY <2>2, <2>3, <2>4, <2>5
<1>7. /\ continuations'[s][t] = cont
      /\ \A r \in ServerRanks, u \in Slots :
           r # s \/ u # t => continuations'[r][u] = continuations[r][u]
  <2>1. Writes(s, t, cont)
    BY <1>6 DEF Writes, HandleHPAck
  <2> QED BY <1>1, <2>1, ContinuationsAfter
<1>8. UNCHANGED <<pc, targetServerID>>
  BY DEF HandleHPAck, clientVars
<1>9. vector \in [ServerRanks -> SUBSET Positions] /\ t \in Positions
  BY <1>1, VectorCoversSlots DEF IInv, TypeOK
<1>10. IsLastReply(cont) <=> ReplyCount(s, t) = 1
  BY <1>4, <1>5, <1>6 DEF IsLastReply
<1>11. CASE ~IsLastReply(cont)
  <2>1. net' = Consumed(k, p, s) /\ UNCHANGED vector
    BY <1>6, <1>11 DEF HandleHPAck
  <2>2. \A F : Cardinality(Pending(net', F)) = Cardinality(Pending(net, F))
                  - (IF m \in F[<<k, p, s>>] THEN 1 ELSE 0)
    BY <1>1, <2>1, ReceivedOnly
  <2>3. \A b \in Clients : TokenCount(b)' = TokenCount(b)
    BY <1>1, <1>3, <2>2, CountTypes DEF TokenCount
  <2>4. ASSUME NEW b \in Clients PROVE HeldAt(b)' = HeldAt(b)
    <3>1. \A x \in ServerRanks \X Slots :
            /\ x[2] \notin vector'[x[1]] /\ continuations'[x[1]][x[2]].originClientRank = b
            <=> x[2] \notin vector[x[1]] /\ continuations[x[1]][x[2]].originClientRank = b
      <4> SUFFICES ASSUME NEW r \in ServerRanks, NEW u \in Slots
                   PROVE continuations'[r][u].originClientRank = continuations[r][u].originClientRank
        BY <2>1
      <4> HIDE DEF t
      <4> QED BY <1>6, <1>7 DEF c
    <3> QED BY <3>1 DEF HeldAt
  <2>5. TokenInv'
    <3>1. \A b \in Clients : Cardinality(HeldAt(b))' = Cardinality(HeldAt(b))
      BY <2>4
    <3> QED BY <1>8, <2>3, <3>1 DEF Counts, TokenInv
  <2>6. ASSUME NEW r \in ServerRanks, NEW u \in Slots PROVE SlotInv(r, u)'
    <3>1. SlotInv(r, u)
      BY DEF Counts, SlotsInv
    <3>2. CASE r = s /\ u = t
      <4>1. ReplyCount(r, u)' = ReplyCount(r, u) - 1
        BY <1>2, <2>2, <3>2 DEF ReplyCount
      <4>2. SlotOwned(r, u)'
        BY <1>5, <1>6, <1>7, <1>8, <3>2 DEF SlotOwned
      <4>3. u \notin vector'[r] /\ continuations'[r][u] = cont
        BY <1>5, <1>7, <2>1, <3>2
      <4>4. /\ ReplyCount(r, u) # 1 /\ ReplyCount(r, u) > 0 /\ ReplyCount(r, u) \in Nat
            /\ cont.numRepliesNeeded = (cont.replyCount - 1) + ReplyCount(r, u)
            /\ cont.numRepliesNeeded \in Nat /\ cont.replyCount \in Nat
        BY <1>4, <1>5, <1>6, <1>10, <1>11, <3>2 DEF Continuation
      <4>5. ReplyCount(r, u)' > 0 /\ cont.numRepliesNeeded = cont.replyCount + ReplyCount(r, u)'
        BY <4>1, <4>4
      <4> QED BY <4>2, <4>3, <4>5 DEF SlotInv
    <3>3. CASE ~(r = s /\ u = t)
      <4>1. ReplyCount(r, u)' = ReplyCount(r, u)
        BY <1>1, <1>2, <2>2, <3>3, CountTypes DEF ReplyCount
      <4>2. continuations'[r][u] = continuations[r][u]
        BY <1>7, <3>3
      <4> QED BY <1>8, <2>1, <3>1, <4>1, <4>2 DEF SlotInv, SlotOwned
    <3> QED BY <3>2, <3>3
  <2>7. VectorInv'
    BY <2>1 DEF Counts, VectorInv
  <2> QED BY <2>5, <2>6, <2>7 DEF Counts, SlotsInv
<1>12. CASE IsLastReply(cont)
  <2>1. vector' = [vector EXCEPT ![s] = setBit(@, t)]
    BY <1>6, <1>12 DEF HandleHPAck
  <2>2. /\ vector'[s] = vector[s] \union {t}
        /\ \A r \in ServerRanks : r # s => vector'[r] = vector[r]
    BY <1>9, <2>1 DEF setBit
  <2>3. c \in Ranks /\ c \notin ServerRanks
    BY <1>5, RankKinds
  <2>4. PICK x \in Message : net' = Post(Consumed(k, p, s), k, s, c, x)
    <3>1. Msg("HP ACK", 0) \in Message
      BY MsgType, ZeroIsSlot DEF Kinds
    <3>2. net' = Post(Consumed(k, p, s), k, s, c, Msg("HP ACK", 0))
      BY <1>6, <1>12 DEF HandleHPAck
    <3> QED BY <3>1, <3>2
  <2> HIDE DEF c, t
  <2>5. \A F : Cardinality(Pending(net', F)) = Cardinality(Pending(net, F))
                - (IF m \in F[<<k, p, s>>] THEN 1 ELSE 0) + (IF x \in F[<<k, s, c>>] THEN 1 ELSE 0)
    BY <1>1, <2>3, <2>4, ReceivedAndPosted
  <2>6. \A r \in ServerRanks, u \in Slots : x \notin ReplyFilter(r, u)[<<k, s, c>>]
    BY <1>1, <2>3, SentMessage
  <2>7. \A b \in Clients : x \in TokenFilter(b)[<<k, s, c>>] <=> b = c
    BY <1>1, <2>3, SentMessage
  <2>8. ASSUME NEW b \in Clients
        PROVE  TokenCount(b)' + Cardinality(HeldAt(b))' = TokenCount(b) + Cardinality(HeldAt(b))
    <3>0. /\ TokenCount(b) \in Nat /\ IsFiniteSet(HeldAt(b)) /\ Cardinality(HeldAt(b)) \in Nat
      BY <1>1, CountTypes, HeldFinite
    <3>1. ASSUME NEW x2 \in ServerRanks \X Slots
          PROVE  x2 \in HeldAt(b)' <=> x2 \in HeldAt(b) /\ x2 # <<s, t>>
      <4>1. PICK r \in ServerRanks, u \in Slots : x2 = <<r, u>>
        OBVIOUS
      <4>2. u \notin vector'[r] <=> u \notin vector[r] /\ ~(r = s /\ u = t)
        BY <2>2
      <4>3. ~(r = s /\ u = t) => continuations'[r][u] = continuations[r][u]
        BY <1>7
      <4> QED BY <4>1, <4>2, <4>3 DEF HeldAt
    <3>2. HeldAt(b)' = HeldAt(b) \ {<<s, t>>}
      <4>1. HeldAt(b) \subseteq ServerRanks \X Slots /\ HeldAt(b)' \subseteq ServerRanks \X Slots
        BY DEF HeldAt
      <4> QED BY <3>1, <4>1
    <3>3. <<s, t>> \in HeldAt(b) <=> b = c
      BY <1>1, <1>5 DEF HeldAt, c, t
    <3>4. CASE b = c
      <4>1. TokenCount(b)' = TokenCount(b) + 1
        BY <1>3, <2>5, <2>7, <3>0, <3>4 DEF TokenCount
      <4>2. Cardinality(HeldAt(b))' = Cardinality(HeldAt(b)) - 1
        <5>1. PICK S : S = HeldAt(b)
          OBVIOUS
        <5>2. Cardinality(S \ {<<s, t>>}) = Cardinality(S) - 1
          BY <3>0, <3>3, <3>4, <5>1, FS_RemoveElement
        <5> QED BY <3>2, <5>1, <5>2
      <4> QED BY <3>0, <4>1, <4>2
    <3>5. CASE b # c
      <4>1. TokenCount(b)' = TokenCount(b)
        BY <1>3, <2>5, <2>7, <3>0, <3>5 DEF TokenCount
      <4>2. HeldAt(b)' = HeldAt(b)
        BY <3>2, <3>3, <3>5
      <4>3. Cardinality(HeldAt(b))' = Cardinality(HeldAt(b))
        BY <4>2
      <4> QED BY <4>1, <4>3
    <3> QED BY <3>4, <3>5
  <2>9. TokenInv'
    BY <1>8, <2>8 DEF Counts, TokenInv
  <2>10. ASSUME NEW r \in ServerRanks, NEW u \in Slots PROVE SlotInv(r, u)'
    <3>1. SlotInv(r, u)
      BY DEF Counts, SlotsInv
    <3>2. CASE r = s /\ u = t
      <4>1. ReplyCount(r, u)' = ReplyCount(r, u) - 1
        BY <1>2, <1>4, <2>5, <2>6, <3>2 DEF ReplyCount
      <4>2. ReplyCount(r, u)' = 0
        BY <1>10, <1>12, <3>2, <4>1
      <4>3. u \in vector'[r]
        BY <2>2, <3>2
      <4> QED BY <4>2, <4>3 DEF SlotInv
    <3>3. CASE ~(r = s /\ u = t)
      <4>1. ReplyCount(r, u)' = ReplyCount(r, u)
        BY <1>1, <1>2, <2>5, <2>6, <3>3, CountTypes DEF ReplyCount
      <4>2. continuations'[r][u] = continuations[r][u] /\ (u \in vector'[r] <=> u \in vector[r])
        BY <1>7, <2>2, <3>3
      <4> QED BY <1>8, <3>1, <4>1, <4>2 DEF SlotInv, SlotOwned
    <3> QED BY <3>2, <3>3
  <2>11. VectorInv'
    BY <1>9, <2>2 DEF Counts, VectorInv, Padded
  <2> QED BY <2>9, <2>10, <2>11 DEF Counts, SlotsInv
<1> QED BY <1>11, <1>12

LEMMA HeldOnce ==
  ASSUME IInv, Counts, NEW c \in Clients
  PROVE  /\ \A x, y \in HeldAt(c) : x = y
         /\ HeldAt(c) # {} => pc[c] = "wait" /\ TokenCount(c) = 0
<1>1. PICK S : S = HeldAt(c)
  OBVIOUS
<1>2. IsFiniteSet(S) /\ Cardinality(S) \in Nat /\ TokenCount(c) \in Nat
  BY <1>1, HeldFinite, CountTypes DEF IInv, TypeOK, Networks
<1>3. /\ TokenCount(c) + Cardinality(S) <= 1
      /\ pc[c] # "wait" => TokenCount(c) + Cardinality(S) = 0
  BY <1>1 DEF Counts, TokenInv
<1>4. S # {} => Cardinality(S) = 1 /\ TokenCount(c) = 0 /\ pc[c] = "wait"
  <2>1. Cardinality(S) = 0 <=> S = {}
    BY <1>2, FS_EmptySet
  <2> QED BY <1>2, <1>3, <2>1
<1>5. ASSUME NEW x \in S, NEW y \in S PROVE x = y
  <2>1. IsFiniteSet(S \ {x}) /\ Cardinality(S \ {x}) = 0
    BY <1>2, <1>4, FS_RemoveElement
  <2>2. S \ {x} = {}
    BY <2>1, FS_EmptySet
  <2> QED BY <2>2
<1> QED BY <1>1, <1>4, <1>5

\* The slot a request gets is free, and in the first word: the slots before it hold
\* requests of other clients of the same server
LEMMA NextSlotFits ==
  ASSUME IInv, Counts, FewRequests, NEW s \in ServerRanks, NEW p \in Clients,
         s \in HPRanks(targetServerID[p]), TokenCount(p) > 0,
         NEW tag, tag = getFirstOne(vector[s]), tag # INVALID_INDEX
  PROVE  tag \in Slots /\ tag \in vector[s] /\ tag \in 0 .. IntSizeBits - 1
<1> DEFINE free == vector[s] \intersect Slots
           W == IntSizeBits
<1>1. Padded(vector[s]) /\ Slots \ vector[s] \subseteq 0 .. W - 1
  BY DEF Counts, VectorInv
<1>2. W \in Nat \ {0} /\ NumBits \in Nat \ {0}
  BY BitVectorAssumption
<1>3. free # {} /\ tag = LeastOne(vector[s])
  BY <1>1, GetFirstOneIsLeast, GetFirstOneInvalidIffFull
<1>4. free \subseteq Nat
  BY <1>2 DEF Slots
<1>5. \E q \in free : \A r \in free : q <= r
  <2> HIDE DEF free
  <2> QED BY <1>3, <1>4, LeastNatural
<1>6. tag \in free /\ \A r \in free : tag <= r
  BY <1>3, <1>5 DEF LeastOne
<1>7. tag \in Slots /\ tag \in vector[s] /\ tag \in Nat /\ tag < NumBits
  BY <1>2, <1>6 DEF Slots
<1>8. CASE NumBits <= W
  BY <1>2, <1>7, <1>8
<1>9. CASE NumBits > W
  <2> SUFFICES ASSUME tag >= W PROVE FALSE
    BY <1>2, <1>7
  <2>1. \A t \in 0 .. W - 1 : t \in Slots /\ t \notin vector[s]
    BY <1>2, <1>6, <1>7 DEF Slots
  <2> DEFINE h == targetServerID[p]
             T == {c \in Clients : targetServerID[c] = h}
             f == [t \in 0 .. W - 1 |-> continuations[s][t].originClientRank]
  <2>2. h \in Servers /\ HostOf(s) = h
    BY DEF IInv, TypeOK, HPRanks
  <2>3. Cardinality(T) <= W
    BY <1>2, <1>9, <2>2 DEF FewRequests
  <2>4. IsFiniteSet(T) /\ p \in T /\ Cardinality(T) \in Nat
    BY FiniteChannels, FS_Subset, FS_CardinalityType
  <2>5. IsFiniteSet(T \ {p}) /\ Cardinality(T \ {p}) < W
    <3>1. PICK S : S = T
      OBVIOUS
    <3>2. IsFiniteSet(S) /\ p \in S /\ Cardinality(S) \in Nat /\ Cardinality(S) <= W
      BY <2>3, <2>4, <3>1
    <3>3. IsFiniteSet(S \ {p}) /\ Cardinality(S \ {p}) = Cardinality(S) - 1
      BY <3>2, FS_RemoveElement
    <3> QED BY <1>2, <3>1, <3>2, <3>3
  <2>6. ASSUME NEW t \in 0 .. W - 1
        PROVE  f[t] \in T \ {p} /\ <<s, t>> \in HeldAt(f[t])
    <3>1. t \in Slots /\ t \notin vector[s]
      BY <2>1
    <3>2. PICK c \in Clients : c = f[t] /\ s \in HPRanks(targetServerID[c])
      BY <3>1, UsedSlots
    <3>3. targetServerID[c] = h
      BY <2>2, <3>2 DEF HPRanks
    <3>4. <<s, t>> \in HeldAt(c)
      BY <3>1, <3>2 DEF HeldAt
    <3>5. c # p
      BY <3>4, HeldOnce
    <3> QED BY <3>2, <3>3, <3>4, <3>5
  <2>7. f \in [0 .. W - 1 -> T \ {p}]
    BY <2>6
  <2>8. IsFiniteSet(0 .. W - 1) /\ Cardinality(0 .. W - 1) = W
    BY <1>2, FS_Interval
  <2> HIDE DEF f, T
  <2>9. PICK t \in 0 .. W - 1, u \in 0 .. W - 1 : t # u /\ f[t] = f[u]
    <3>1. PICK I, S : I = 0 .. W - 1 /\ S = T \ {p}
      OBVIOUS
    <3>2. /\ IsFiniteSet(I) /\ IsFiniteSet(S) /\ Cardinality(S) < Cardinality(I)
          /\ f \in [I -> S]
      BY <2>5, <2>7, <2>8, <3>1
    <3>3. \E t, u \in I : t # u /\ f[t] = f[u]
      BY <3>2, FS_PigeonHole
    <3> QED BY <3>1, <3>3
  <2>10. f[t] \in Clients /\ <<s, t>> \in HeldAt(f[t]) /\ <<s, u>> \in HeldAt(f[t])
    BY <2>6, <2>9 DEF T
  <2>11. <<s, t>> = <<s, u>>
    BY <2>10, HeldOnce
  <2> QED BY <2>9, <2>11
<1> QED BY <1>2, <1>7, <1>8, <1>9

\* A request that gets a slot, and the server requests made for it
LEMMA CountSpread ==
  ASSUME IInv, net' \in Networks, Counts, FewRequests,
         NEW s \in ServerRanks, NEW p \in Ranks, NEW k \in Comms,
         NEW m \in Message, Arrived(k, p, s), m = Head(net[<<k, p, s>>]),
         MsgOK(k, p, s, m), SpreadHPRequest(s, p, k, m)
  PROVE  Counts'
<1>1. /\ s \in Ranks /\ p \in Clients /\ p \notin ServerRanks /\ IsHP(k) /\ IsRequest(m)
      /\ net \in Networks /\ s \in HPRanks(targetServerID[p])
  BY RankKinds DEF SpreadHPRequest, MsgOK, IsRequest, IsHP, IInv, TypeOK, Networks
<1>2. \A b \in Clients : m \in TokenFilter(b)[<<k, p, s>>] <=> b = p
  BY <1>1, TakenMessage
<1>3. \A r \in ServerRanks, u \in Slots : m \notin ReplyFilter(r, u)[<<k, p, s>>]
  BY <1>1, TakenMessage
<1>4. TokenCount(p) > 0 /\ TokenCount(p) \in Nat
  <2>1. PICK F : F = TokenFilter(p)
    OBVIOUS
  <2>2. Cardinality(Pending(net, F)) \in Nat \ {0}
    BY <1>1, <1>2, <2>1, ArrivedIsCounted
  <2> QED BY <2>1, <2>2 DEF TokenCount
<1>5. PICK tag \in Slots : /\ tag = getFirstOne(vector[s]) /\ tag # INVALID_INDEX
                           /\ tag \in vector[s] /\ tag \in 0 .. IntSizeBits - 1
  BY <1>1, <1>4, NextSlotFits DEF SpreadHPRequest
<1>6. serverNetLoad[s] \in Nat /\ serverNetLoad[s] > 0
  <2>1. serverNetLoad[s] # 0
    BY DEF SpreadHPRequest
  <2> QED BY <2>1, LoadIs
<1>7. PICK dests \in NetworkTargets(k, s), x \in Message :
        /\ net' = PostAll(Consumed(k, p, s), k, s, dests, x)
        /\ IsServerRequest(x) /\ ~IsAck(x) /\ x.tag = tag
  <2>1. k = "HP"
    BY <1>1 DEF IsHP
  <2>2. /\ ServerRequest(k, tag) \in Message
        /\ IsServerRequest(ServerRequest(k, tag)) /\ ~IsAck(ServerRequest(k, tag))
        /\ ServerRequest(k, tag).tag = tag
    <3>1. ServerRequest(k, tag) = Msg("HP SERVER REQUEST", tag)
      BY <2>1 DEF ServerRequest
    <3>2. Msg("HP SERVER REQUEST", tag) \in Message
      BY MsgType DEF Kinds
    <3>3. /\ IsServerRequest(Msg("HP SERVER REQUEST", tag)) /\ ~IsAck(Msg("HP SERVER REQUEST", tag))
          /\ Msg("HP SERVER REQUEST", tag).tag = tag
      BY DEF Msg, IsServerRequest, IsAck
    <3> QED BY <3>1, <3>2, <3>3
  <2> QED BY <1>5, <2>2 DEF SpreadHPRequest
<1>8. /\ UNCHANGED <<pc, targetServerID>>
      /\ vector' = [vector EXCEPT ![s] = clearBit(@, tag)]
      /\ Writes(s, tag, [replyCount |-> 0, numRepliesNeeded |-> serverNetLoad[s], originClientRank |-> p])
  BY <1>5 DEF SpreadHPRequest, clientVars, Writes
<1>9. /\ vector'[s] = vector[s] \ {tag}
      /\ \A r \in ServerRanks : r # s => vector'[r] = vector[r]
  BY <1>8 DEF IInv, TypeOK, clearBit
<1>10. PICK cont \in Continuation :
         /\ cont.replyCount = 0 /\ cont.numRepliesNeeded = serverNetLoad[s] /\ cont.originClientRank = p
         /\ continuations'[s][tag] = cont
         /\ \A r \in ServerRanks, u \in Slots :
              r # s \/ u # tag => continuations'[r][u] = continuations[r][u]
  <2>1. PICK cont \in Continuation :
           cont = [replyCount |-> 0, numRepliesNeeded |-> serverNetLoad[s], originClientRank |-> p]
    BY <1>6 DEF Continuation
  <2>2. Writes(s, tag, cont)
    BY <1>8, <2>1
  <2>3. /\ continuations'[s][tag] = cont
        /\ \A r \in ServerRanks, u \in Slots :
             r # s \/ u # tag => continuations'[r][u] = continuations[r][u]
    BY <2>2, ContinuationsAfter
  <2> QED BY <2>1, <2>3
<1>11. \A i \in 1 .. serverNetLoad[s] : dests[i] \in ServerRanks /\ dests[i] \in Ranks /\ dests[i] \notin Clients
  BY <1>1, NetworkTargetsListen, RankKinds
<1>12. \A F : Cardinality(Pending(net', F)) = Cardinality(Pending(net, F))
                - (IF m \in F[<<k, p, s>>] THEN 1 ELSE 0)
                + Cardinality(Counted(k, s, dests, x, F))
  BY <1>1, <1>7, ReceivedAndSpread
<1>13. ASSUME NEW b \in Clients
       PROVE  TokenCount(b)' = TokenCount(b) - (IF b = p THEN 1 ELSE 0)
  <2>1. PICK F : F = TokenFilter(b)
    OBVIOUS
  <2>2. \A i \in 1 .. serverNetLoad[s] : x \in F[<<k, s, dests[i]>>] <=> FALSE
    BY <1>11, <2>1, SentMessage
  <2>3. Cardinality(Counted(k, s, dests, x, F)) = 0
    BY <2>2, NoneOrAll
  <2>4. TokenCount(b) \in Nat
    BY <1>1, CountTypes
  <2>5. TokenCount(b) = Cardinality(Pending(net, F)) /\ TokenCount(b)' = Cardinality(Pending(net', F))
    BY <2>1 DEF TokenCount
  <2>6. m \in F[<<k, p, s>>] <=> b = p
    BY <1>2, <2>1
  <2> QED BY <1>12, <2>3, <2>4, <2>5, <2>6
<1>14. ASSUME NEW r \in ServerRanks, NEW u \in Slots
       PROVE  ReplyCount(r, u)' = ReplyCount(r, u) + (IF r = s /\ u = tag THEN serverNetLoad[s] ELSE 0)
  <2>1. PICK F : F = ReplyFilter(r, u)
    OBVIOUS
  <2>2. PICK yes \in BOOLEAN : yes <=> r = s /\ u = tag
    OBVIOUS
  <2>3. \A i \in 1 .. serverNetLoad[s] : x \in F[<<k, s, dests[i]>>] <=> yes
    BY <1>1, <1>7, <1>11, <2>1, <2>2, SentMessage
  <2>4. Cardinality(Counted(k, s, dests, x, F)) = IF yes THEN serverNetLoad[s] ELSE 0
    BY <2>3, NoneOrAll
  <2>5. ReplyCount(r, u) \in Nat
    BY <1>1, CountTypes
  <2>6. ReplyCount(r, u) = Cardinality(Pending(net, F)) /\ ReplyCount(r, u)' = Cardinality(Pending(net', F))
    BY <2>1 DEF ReplyCount
  <2>7. m \notin F[<<k, p, s>>]
    BY <1>3, <2>1
  <2> QED BY <1>6, <1>12, <2>2, <2>4, <2>5, <2>6, <2>7
<1>15. TokenInv'
  <2> SUFFICES ASSUME NEW b \in Clients
               PROVE  TokenCount(b)' + Cardinality(HeldAt(b))' = TokenCount(b) + Cardinality(HeldAt(b))
    BY <1>8 DEF Counts, TokenInv
  <2>0. PICK S : S = HeldAt(b)
    OBVIOUS
  <2>1. TokenCount(b) \in Nat /\ IsFiniteSet(S) /\ Cardinality(S) \in Nat
    BY <1>1, <2>0, CountTypes, HeldFinite
  <2>2. ASSUME NEW y \in ServerRanks \X Slots
        PROVE  y \in HeldAt(b)' <=> y \in HeldAt(b) \/ (b = p /\ y = <<s, tag>>)
    <3>1. PICK r \in ServerRanks, u \in Slots : y = <<r, u>>
      OBVIOUS
    <3>2. u \notin vector'[r] <=> u \notin vector[r] \/ (r = s /\ u = tag)
      BY <1>9
    <3>3. CASE r = s /\ u = tag
      <4>1. y \notin HeldAt(b)
        BY <1>5, <3>1, <3>3 DEF HeldAt
      <4>2. continuations'[r][u].originClientRank = p
        BY <1>10, <3>3
      <4> QED BY <3>1, <3>2, <3>3, <4>1, <4>2 DEF HeldAt
    <3>4. CASE ~(r = s /\ u = tag)
      <4>1. continuations'[r][u] = continuations[r][u]
        BY <1>10, <3>4
      <4> QED BY <3>1, <3>2, <3>4, <4>1 DEF HeldAt
    <3> QED BY <3>3, <3>4
  <2>3. <<s, tag>> \in ServerRanks \X Slots /\ <<s, tag>> \notin S
    BY <1>5, <2>0 DEF HeldAt
  <2>4. HeldAt(b) \subseteq ServerRanks \X Slots /\ HeldAt(b)' \subseteq ServerRanks \X Slots
    BY DEF HeldAt
  <2>5. CASE b = p
    <3>1. HeldAt(b)' = S \union {<<s, tag>>}
      BY <2>0, <2>2, <2>3, <2>4, <2>5
    <3>2. Cardinality(S \union {<<s, tag>>}) = Cardinality(S) + 1
      BY <2>1, <2>3, FS_AddElement
    <3>3. Cardinality(HeldAt(b))' = Cardinality(S) + 1
      BY <3>1, <3>2
    <3>4. TokenCount(b)' = TokenCount(b) - 1
      BY <1>13, <2>5
    <3> QED BY <2>0, <2>1, <3>3, <3>4
  <2>6. CASE b # p
    <3>1. HeldAt(b)' = S
      BY <2>0, <2>2, <2>4, <2>6
    <3>2. Cardinality(HeldAt(b))' = Cardinality(S)
      BY <3>1
    <3>3. TokenCount(b)' = TokenCount(b)
      BY <1>13, <2>1, <2>6
    <3> QED BY <2>0, <3>2, <3>3
  <2> QED BY <2>5, <2>6
<1>16. ASSUME NEW r \in ServerRanks, NEW u \in Slots PROVE SlotInv(r, u)'
  <2>1. SlotInv(r, u) /\ ReplyCount(r, u) \in Nat
    BY <1>1, CountTypes DEF Counts, SlotsInv
  <2>2. CASE r = s /\ u = tag
    <3>1. ReplyCount(r, u) = 0
      BY <1>5, <2>1, <2>2 DEF SlotInv
    <3>2. ReplyCount(r, u)' = serverNetLoad[s]
      BY <1>6, <1>14, <2>2, <3>1
    <3>3. u \notin vector'[r] /\ continuations'[r][u] = cont
      BY <1>9, <1>10, <2>2
    <3>4. SlotOwned(r, u)'
      BY <1>1, <1>8, <1>10, <2>2, <3>3 DEF SlotOwned
    <3> QED BY <1>6, <1>10, <3>2, <3>3, <3>4 DEF SlotInv
  <2>3. CASE ~(r = s /\ u = tag)
    <3>1. ReplyCount(r, u)' = ReplyCount(r, u)
      BY <1>14, <2>1, <2>3
    <3>2. continuations'[r][u] = continuations[r][u] /\ (u \in vector'[r] <=> u \in vector[r])
      BY <1>9, <1>10, <2>3
    <3> QED BY <1>8, <2>1, <3>1, <3>2 DEF SlotInv, SlotOwned
  <2> QED BY <2>2, <2>3
<1>17. VectorInv'
  BY <1>5, <1>9 DEF Counts, VectorInv, Padded
<1> QED BY <1>15, <1>16, <1>17 DEF Counts, SlotsInv

\* A request that gets none: every slot holds the request of another client
LEMMA CountAbort ==
  ASSUME IInv, Counts, NEW s \in ServerRanks, NEW p \in Ranks, NEW k \in Comms,
         NEW m \in Message, AbortOnFullVector(s, p, k, m)
  PROVE  aborted' /\ AbortOnlyWhenFull'
<1>1. vector[s] \intersect Slots = {}
  BY GetFirstOneInvalidIffFull DEF AbortOnFullVector, Counts, VectorInv
<1> DEFINE f == [t \in Slots |-> continuations[s][t].originClientRank]
           T == {c \in Clients : HeldFor(s, c) # {}}
<1>2. ASSUME NEW t \in Slots
      PROVE  /\ f[t] \in Clients /\ <<s, t>> \in HeldAt(f[t]) /\ t \in HeldFor(s, f[t])
             /\ pc[f[t]] = "wait"
  <2>1. t \notin vector[s]
    BY <1>1
  <2>2. PICK c \in Clients : c = f[t]
    BY <2>1, UsedSlots
  <2>3. <<s, t>> \in HeldAt(c) /\ t \in HeldFor(s, c)
    BY <2>1, <2>2 DEF HeldAt, HeldFor
  <2>4. pc[c] = "wait"
    BY <2>3, HeldOnce
  <2> QED BY <2>2, <2>3, <2>4
<1>3. f \in [Slots -> T]
  BY <1>2
<1>4. \A t, u \in Slots : f[t] = f[u] => t = u
  <2> SUFFICES ASSUME NEW t \in Slots, NEW u \in Slots, f[t] = f[u] PROVE t = u
    OBVIOUS
  <2> HIDE DEF f
  <2>1. <<s, t>> = <<s, u>>
    BY <1>2, HeldOnce
  <2> QED BY <2>1
<1>5. \A c \in T : \E t \in Slots : f[t] = c
  BY DEF HeldFor
<1>6. Cardinality(T) = NumBits
  <2> HIDE DEF f, T
  <2>1. IsFiniteSet(Slots) /\ Cardinality(Slots) = NumBits
    BY FiniteVector
  <2> QED BY <1>3, <1>4, <1>5, <2>1, SameSize
<1>7. aborted' /\ UNCHANGED <<pc, vector, continuations>>
  BY DEF AbortOnFullVector, clientVars, slotVars
<1>8. \A c : HeldFor(s, c)' = HeldFor(s, c)
  BY <1>7 DEF HeldFor
<1>9. /\ vector'[s] \intersect Slots = {}
      /\ \A t \in Slots : pc'[continuations'[s][t].originClientRank] = "wait"
      /\ Cardinality({c \in Clients : HeldFor(s, c) # {}})' = NumBits
  <2>1. T' = T
    BY <1>8
  <2>2. Cardinality(T)' = NumBits
    BY <1>6, <2>1
  <2>3. \A t \in Slots : pc[continuations[s][t].originClientRank] = "wait"
    BY <1>2
  <2> QED BY <1>1, <1>7, <2>2, <2>3
<1> QED BY <1>7, <1>9 DEF AbortOnlyWhenFull

\* The clients choose their servers once and for all
LEMMA FewRequestsStays == [Next]_vars => UNCHANGED targetServerID /\ FewRequests' = FewRequests
<1> SUFFICES ASSUME [Next]_vars PROVE UNCHANGED targetServerID
  BY DEF FewRequests
<1>1. CASE UNCHANGED vars
  BY <1>1 DEF vars, clientVars
<1>2. ASSUME NEW c \in Clients, ClientStep(c) \/ Signal(c) PROVE UNCHANGED targetServerID
  BY <1>2 DEF ClientStep, SendLPReq, SkipLPReq, SendHPReq, SkipHPReq, WaitHPReply, Finish, Signal
<1>3. ASSUME NEW s \in ServerRanks, ServerStep(s) PROVE UNCHANGED targetServerID
  <2>1. ASSUME NEW p, NEW k, NEW m, Handler(s, p, k, m) PROVE UNCHANGED clientVars
    BY <2>1 DEF Handler, AnswerHPRequest, SpreadHPRequest, AbortOnFullVector, HandleLPRequest,
       HandleServerRequest, HandleHPAck, HandleLPAck, HandleSimComplete
  <2>2. \E p, k, m : Handler(s, p, k, m)
    BY <1>3 DEF ServerStep, Handler
  <2> QED BY <2>1, <2>2 DEF clientVars
<1> QED BY <1>1, <1>2, <1>3 DEF Next, Quiescent

LEMMA CountServerStep ==
  ASSUME IInv, IInv', FewRequests, Counts, ~aborted, NEW s \in ServerRanks, ServerStep(s)
  PROVE  CountInv'
<1>1. PICK k \in Comms, p \in Ranks :
        /\ k = ServerComm(s) /\ Arrived(k, p, s) /\ Handler(s, p, k, Head(net[<<k, p, s>>]))
  <2>1. ServerComm(s) \in Comms
    BY DEF ServerComm, Comms
  <2> QED BY <2>1 DEF ServerStep, Handler
<1>2. s \in Ranks /\ net' \in Networks
  BY RankKinds DEF IInv, TypeOK, Networks
<1>3. PICK m \in Message : m = Head(net[<<k, p, s>>]) /\ MsgOK(k, p, s, m)
  BY <1>1, <1>2, Received
<1>4. CASE AbortOnFullVector(s, p, k, m)
  BY <1>4, CountAbort DEF CountInv
<1>5. CASE ~AbortOnFullVector(s, p, k, m)
  <2>1. aborted' = aborted
    BY <1>1, <1>3, <1>5 DEF Handler, AnswerHPRequest, SpreadHPRequest, HandleLPRequest,
         HandleServerRequest, HandleHPAck, HandleLPAck, HandleSimComplete
  <2>2. Counts'
    <3>1. CASE ~IsHP(k)
      BY <1>1, <1>2, <1>3, <3>1, CountLPThread
    <3>2. CASE IsHP(k)
      <4>1. ~HandleLPRequest(s, p, k, m) /\ ~HandleLPAck(s, p, k, m)
        BY <1>3, <3>2 DEF HandleLPRequest, HandleLPAck, MsgOK, IsHP
      <4>2. CASE AnswerHPRequest(s, p, k, m)
        BY <1>1, <1>2, <1>3, <4>2, CountAnswer
      <4>3. CASE SpreadHPRequest(s, p, k, m)
        BY <1>1, <1>2, <1>3, <4>3, CountSpread
      <4>4. CASE HandleServerRequest(s, p, k, m)
        BY <1>1, <1>2, <1>3, <3>2, <4>4, CountServerRequest
      <4>5. CASE HandleHPAck(s, p, k, m)
        BY <1>1, <1>2, <1>3, <4>5, CountHPAck
      <4>6. CASE HandleSimComplete(s, p, k, m)
        BY <1>1, <1>2, <1>3, <4>6, CountSimComplete
      <4> QED BY <1>1, <1>3, <1>5, <4>1, <4>2, <4>3, <4>4, <4>5, <4>6 DEF Handler
    <3> QED BY <3>1, <3>2
  <2> QED BY <2>1, <2>2 DEF CountInv, AbortOnlyWhenFull
<1> QED BY <1>4, <1>5

LEMMA CountNext == IInv /\ IInv' /\ FewRequests /\ CountInv /\ [Next]_vars => CountInv'
<1> SUFFICES ASSUME IInv, IInv', FewRequests, CountInv, [Next]_vars PROVE CountInv'
  OBVIOUS
<1>1. CASE UNCHANGED vars
  <2>1. UNCHANGED <<net, aborted, pc, targetServerID, vector, continuations>>
    BY <1>1 DEF vars, clientVars, serverVars
  <2>2. /\ \A c : TokenCount(c)' = TokenCount(c) /\ HeldAt(c)' = HeldAt(c)
        /\ \A s, t : ReplyCount(s, t)' = ReplyCount(s, t) /\ HeldFor(s, t)' = HeldFor(s, t)
    BY <2>1 DEF TokenCount, ReplyCount, HeldAt, HeldFor
  <2>3. Counts' = Counts
    <3>1. TokenInv' = TokenInv
      BY <2>1, <2>2 DEF TokenInv
    <3>2. SlotsInv' = SlotsInv
      BY <2>1, <2>2 DEF SlotsInv, SlotInv, SlotOwned
    <3>3. VectorInv' = VectorInv
      BY <2>1 DEF VectorInv
    <3> QED BY <3>1, <3>2, <3>3 DEF Counts
  <2>4. AbortOnlyWhenFull' = AbortOnlyWhenFull
    BY <2>1 DEF AbortOnlyWhenFull, HeldFor
  <2> QED BY <2>1, <2>3, <2>4 DEF CountInv
<1>2. ASSUME ~aborted, NEW c \in Clients, ClientStep(c) \/ Signal(c) PROVE CountInv'
  <2>1. aborted' = aborted
    BY <1>2 DEF ClientStep, SendLPReq, SkipLPReq, SendHPReq, SkipHPReq, WaitHPReply, Finish, Signal
  <2>2. Counts'
    BY <1>2, CountClientStep DEF CountInv
  <2> QED BY <1>2, <2>1, <2>2 DEF CountInv, AbortOnlyWhenFull
<1>3. ASSUME ~aborted, NEW s \in ServerRanks, ServerStep(s) PROVE CountInv'
  BY <1>3, CountServerStep DEF CountInv
<1> QED BY <1>1, <1>2, <1>3 DEF Next, Quiescent

LEMMA CountAlways == Spec => [](FewRequests => CountInv)
<1> DEFINE J == FewRequests => CountInv
<1>1. Init => J
  BY CountInit
<1>2. IInv /\ IInv' /\ J /\ [Next]_vars => J'
  BY CountNext, FewRequestsStays
<1> QED BY <1>1, <1>2, IInvAlways, PTL DEF Spec

-------------------------------------------------------------------------------
(* Tokens and replies: the properties                                        *)

LEMMA InNet ==
  ASSUME IInv, NEW ch \in Channels, NEW j \in DOMAIN net[ch]
  PROVE  net[ch][j] \in Message
BY ElementOfSeq, LenProperties DEF IInv, TypeOK

\* The parts of Tokens and AwaitedReplies, and the tags that keep them apart
AskedAt(c, s)   == Places(<<"HP", c, s>>, {"HP REQUEST"})
AckedAt(c, s)   == DOMAIN net[<<"HP", s, c>>]
OutAt(s, t, d)  == {x \in Places(<<"HP", s, d>>, {"HP SERVER REQUEST"}) : net[<<"HP", s, d>>][x].tag = t}
BackAt(s, t, d) == {x \in Places(<<"HP", d, s>>, {"HP ACK"}) : net[<<"HP", d, s>>][x].tag = t}

Asking(c)   == UNION {{<<"request", s, n>> : n \in AskedAt(c, s)} : s \in ServerRanks}
Holding(c)  == UNION {{<<"held", s, t>> : t \in HeldFor(s, c)} : s \in ServerRanks}
Acking(c)   == UNION {{<<"ack", s, n>> : n \in AckedAt(c, s)} : s \in ServerRanks}
Outs(s, t)  == UNION {{<<"out", d, n>> : n \in OutAt(s, t, d)} : d \in ServerRanks}
Backs(s, t) == UNION {{<<"back", d, n>> : n \in BackAt(s, t, d)} : d \in ServerRanks}

RequestTag == "request"
HeldTag    == "held"
AckTag     == "ack"
OutTag     == "out"
BackTag    == "back"

LEMMA TagsDiffer ==
  RequestTag # HeldTag /\ RequestTag # AckTag /\ HeldTag # AckTag /\ OutTag # BackTag
BY DEF RequestTag, HeldTag, AckTag, OutTag, BackTag

LEMMA InTokens ==
  ASSUME NEW c, NEW z
  PROVE  /\ z \in Asking(c) <=> \E d \in ServerRanks : \E n \in AskedAt(c, d) : z = <<RequestTag, d, n>>
         /\ z \in Holding(c) <=> \E d \in ServerRanks : \E n \in HeldFor(d, c) : z = <<HeldTag, d, n>>
         /\ z \in Acking(c) <=> \E d \in ServerRanks : \E n \in AckedAt(c, d) : z = <<AckTag, d, n>>
<1>1. z \in Asking(c) <=> \E d \in ServerRanks : \E n \in AskedAt(c, d) : z = <<RequestTag, d, n>>
  BY DEF Asking, RequestTag
<1>2. z \in Holding(c) <=> \E d \in ServerRanks : \E n \in HeldFor(d, c) : z = <<HeldTag, d, n>>
  BY DEF Holding, HeldTag
<1>3. z \in Acking(c) <=> \E d \in ServerRanks : \E n \in AckedAt(c, d) : z = <<AckTag, d, n>>
  BY DEF Acking, AckTag
<1> QED BY <1>1, <1>2, <1>3

LEMMA InAwaited ==
  ASSUME NEW s, NEW t, NEW z
  PROVE  /\ z \in Outs(s, t) <=> \E d \in ServerRanks : \E n \in OutAt(s, t, d) : z = <<OutTag, d, n>>
         /\ z \in Backs(s, t) <=> \E d \in ServerRanks : \E n \in BackAt(s, t, d) : z = <<BackTag, d, n>>
<1>1. z \in Outs(s, t) <=> \E d \in ServerRanks : \E n \in OutAt(s, t, d) : z = <<OutTag, d, n>>
  BY DEF Outs, OutTag
<1>2. z \in Backs(s, t) <=> \E d \in ServerRanks : \E n \in BackAt(s, t, d) : z = <<BackTag, d, n>>
  BY DEF Backs, BackTag
<1> QED BY <1>1, <1>2

LEMMA TokensAreCounted ==
  ASSUME IInv, NEW c \in Clients
  PROVE  Cardinality(Tokens(c)) = TokenCount(c) + Cardinality(HeldAt(c))
<1> DEFINE Moving == Asking(c) \union Acking(c)
           Held == Holding(c)
<1>1. Tokens(c) = Moving \union Held /\ Moving \intersect Held = {}
  <2>1. Tokens(c) = Asking(c) \union Holding(c) \union Acking(c)
    BY DEF Tokens, Asking, Holding, Acking, AskedAt, AckedAt
  <2>2. ASSUME NEW z \in Holding(c) PROVE z \notin Asking(c) /\ z \notin Acking(c)
    BY <2>2, InTokens, TagsDiffer
  <2> QED BY <2>1, <2>2
<1>2. IsFiniteSet(Held) /\ Cardinality(Held) = Cardinality(HeldAt(c))
  <2> DEFINE g == [x \in HeldAt(c) |-> <<HeldTag, x[1], x[2]>>]
  <2>0. ASSUME NEW s \in ServerRanks, NEW t
        PROVE  t \in HeldFor(s, c) <=> <<s, t>> \in HeldAt(c)
    BY DEF HeldAt, HeldFor
  <2>1. ASSUME NEW x \in HeldAt(c)
        PROVE  \E s \in ServerRanks : \E t \in HeldFor(s, c) : x = <<s, t>>
    BY DEF HeldAt, HeldFor
  <2>2. g \in [HeldAt(c) -> Held]
    BY <2>1, InTokens
  <2>3. \A x, y \in HeldAt(c) : g[x] = g[y] => x = y
    BY <2>1
  <2>4. \A z \in Held : \E x \in HeldAt(c) : g[x] = z
    <3> SUFFICES ASSUME NEW z \in Held PROVE \E x \in HeldAt(c) : g[x] = z
      OBVIOUS
    <3>1. PICK s \in ServerRanks : \E t \in HeldFor(s, c) : z = <<HeldTag, s, t>>
      BY InTokens
    <3>2. PICK t \in HeldFor(s, c) : z = <<HeldTag, s, t>>
      BY <3>1
    <3>3. <<s, t>> \in HeldAt(c)
      BY <2>0
    <3>4. g[<<s, t>>] = <<HeldTag, s, t>>
      BY <3>3
    <3> QED BY <3>2, <3>3, <3>4
  <2> HIDE DEF g, Held
  <2>5. IsFiniteSet(HeldAt(c))
    BY HeldFinite
  <2> QED BY <2>2, <2>3, <2>4, <2>5, SameSize
<1>3. IsFiniteSet(Moving) /\ Cardinality(Moving) = TokenCount(c)
  <2> DEFINE P == Pending(net, TokenFilter(c))
             f == [w \in P |-> IF w[1][2] = c THEN <<RequestTag, w[1][3], w[2]>>
                                              ELSE <<AckTag, w[1][2], w[2]>>]
  <2>1. c \in Ranks /\ c \notin ServerRanks /\ ServerRanks \subseteq Ranks
    BY RankKinds
  <2>2. PICK k \in Comms : k = "HP" /\ IsHP(k)
    BY DEF Comms, IsHP
  <2>3. ASSUME NEW s \in ServerRanks, NEW j
        PROVE  /\ <<<<k, c, s>>, j>> \in P <=> j \in AskedAt(c, s)
               /\ <<<<k, s, c>>, j>> \in P <=> j \in AckedAt(c, s)
    <3>1. <<k, c, s>> \in Channels /\ <<k, s, c>> \in Channels
      BY <2>1, ChannelTuple
    <3>2. /\ <<<<k, c, s>>, j>> \in P
               <=> j \in DOMAIN net[<<k, c, s>>] /\ net[<<k, c, s>>][j] \in TokenFilter(c)[<<k, c, s>>]
          /\ <<<<k, s, c>>, j>> \in P
               <=> j \in DOMAIN net[<<k, s, c>>] /\ net[<<k, s, c>>][j] \in TokenFilter(c)[<<k, s, c>>]
      BY <3>1, PendingAt
    <3>3. ASSUME NEW m \in Message
          PROVE  /\ m \in TokenFilter(c)[<<k, c, s>>] <=> IsRequest(m)
                 /\ m \in TokenFilter(c)[<<k, s, c>>]
      BY <2>1, <2>2, InTokenFilter
    <3>4. /\ j \in DOMAIN net[<<k, c, s>>] => net[<<k, c, s>>][j] \in Message
          /\ j \in DOMAIN net[<<k, s, c>>] => net[<<k, s, c>>][j] \in Message
      BY <3>1, InNet
    <3>5. /\ j \in AskedAt(c, s) <=> j \in DOMAIN net[<<k, c, s>>] /\ IsRequest(net[<<k, c, s>>][j])
          /\ j \in AckedAt(c, s) <=> j \in DOMAIN net[<<k, s, c>>]
      BY <2>2 DEF Places, IsRequest, AskedAt, AckedAt
    <3> HIDE DEF P
    <3> QED BY <3>2, <3>3, <3>4, <3>5
  <2>4. ASSUME NEW w \in P
        PROVE  \E s \in ServerRanks : \E j : w = <<<<k, c, s>>, j>> \/ w = <<<<k, s, c>>, j>>
    <3>1. PICK ch \in Channels : \E j \in DOMAIN net[ch] :
            net[ch][j] \in TokenFilter(c)[ch] /\ w = <<ch, j>>
      BY <2>4, PendingIs
    <3>2. PICK j \in DOMAIN net[ch] : net[ch][j] \in TokenFilter(c)[ch] /\ w = <<ch, j>>
      BY <3>1
    <3>3. ch = <<ch[1], ch[2], ch[3]>>
      BY DEF Channels
    <3>4. ch[1] = k /\ ((ch[2] = c /\ ch[3] \in ServerRanks) \/ (ch[2] \in ServerRanks /\ ch[3] = c))
      BY <2>2, <3>2 DEF TokenFilter
    <3> QED BY <3>2, <3>3, <3>4
  <2> HIDE DEF P
  <2>5. ASSUME NEW s \in ServerRanks, NEW j
        PROVE  /\ <<<<k, c, s>>, j>> \in P => f[<<<<k, c, s>>, j>>] = <<RequestTag, s, j>>
               /\ <<<<k, s, c>>, j>> \in P => f[<<<<k, s, c>>, j>>] = <<AckTag, s, j>>
    BY <2>1
  <2> HIDE DEF f
  <2>6. f \in [P -> Moving]
    <3>1. \A w \in P : f[w] \in Moving
      <4> TAKE w \in P
      <4>1. PICK s, j : s \in ServerRanks /\ (w = <<<<k, c, s>>, j>> \/ w = <<<<k, s, c>>, j>>)
        BY <2>4
      <4>2. \/ j \in AskedAt(c, s) /\ f[w] = <<RequestTag, s, j>>
            \/ j \in AckedAt(c, s) /\ f[w] = <<AckTag, s, j>>
        BY <2>3, <2>5, <4>1
      <4> HIDE DEF Moving
      <4>3. CASE j \in AskedAt(c, s) /\ f[w] = <<RequestTag, s, j>>
        <5>1. f[w] \in Asking(c)
          BY <4>1, <4>3, InTokens
        <5> QED BY <5>1 DEF Moving
      <4>4. CASE j \in AckedAt(c, s) /\ f[w] = <<AckTag, s, j>>
        <5>1. f[w] \in Acking(c)
          BY <4>1, <4>4, InTokens
        <5> QED BY <5>1 DEF Moving
      <4> QED BY <4>2, <4>3, <4>4
    <3>2. f = [w \in P |-> f[w]]
      BY DEF f
    <3> QED BY <3>1, <3>2
  <2>7. \A v, w \in P : f[v] = f[w] => v = w
    <3> SUFFICES ASSUME NEW v \in P, NEW w \in P, f[v] = f[w] PROVE v = w
      OBVIOUS
    <3>1. ASSUME NEW x \in P
          PROVE  \E s \in ServerRanks : \E j : \/ x = <<<<k, c, s>>, j>> /\ f[x] = <<RequestTag, s, j>>
                                               \/ x = <<<<k, s, c>>, j>> /\ f[x] = <<AckTag, s, j>>
      <4>1. PICK s, j : s \in ServerRanks /\ (x = <<<<k, c, s>>, j>> \/ x = <<<<k, s, c>>, j>>)
        BY <2>4
      <4>2. \/ x = <<<<k, c, s>>, j>> /\ f[x] = <<RequestTag, s, j>>
            \/ x = <<<<k, s, c>>, j>> /\ f[x] = <<AckTag, s, j>>
        BY <2>5, <4>1
      <4>3. s \in ServerRanks
        BY <4>1
      <4> QED BY <4>2, <4>3
    <3>2. PICK s, j : s \in ServerRanks /\ \/ v = <<<<k, c, s>>, j>> /\ f[v] = <<RequestTag, s, j>>
                                           \/ v = <<<<k, s, c>>, j>> /\ f[v] = <<AckTag, s, j>>
      BY <3>1
    <3>3. PICK r, i : r \in ServerRanks /\ \/ w = <<<<k, c, r>>, i>> /\ f[w] = <<RequestTag, r, i>>
                                           \/ w = <<<<k, r, c>>, i>> /\ f[w] = <<AckTag, r, i>>
      BY <3>1
    <3> QED BY <3>2, <3>3, TagsDiffer
  <2>8. \A z \in Moving : \E w \in P : f[w] = z
    <3> TAKE z \in Moving
    <3>1. CASE z \in Asking(c)
      <4>1. PICK s, j : s \in ServerRanks /\ j \in AskedAt(c, s) /\ z = <<RequestTag, s, j>>
        BY <3>1, InTokens
      <4> QED BY <2>3, <2>5, <4>1
    <3>2. CASE z \in Acking(c)
      <4>1. PICK s, j : s \in ServerRanks /\ j \in AckedAt(c, s) /\ z = <<AckTag, s, j>>
        BY <3>2, InTokens
      <4> QED BY <2>3, <2>5, <4>1
    <3> QED BY <3>1, <3>2
  <2>9. IsFiniteSet(P)
    <3>1. PICK n \in Networks : n = net
      BY DEF IInv, TypeOK, Networks
    <3> QED BY <3>1, PendingFinite DEF P
  <2> HIDE DEF Moving
  <2>10. IsFiniteSet(Moving) /\ Cardinality(Moving) = Cardinality(P)
    BY <2>6, <2>7, <2>8, <2>9, SameSize
  <2> QED BY <2>10 DEF P, TokenCount
<1>4. Cardinality(Moving \intersect Held) = 0
  BY <1>1, FS_EmptySet
<1> HIDE DEF Moving, Held
<1>5. Cardinality(Moving \union Held)
        = Cardinality(Moving) + Cardinality(Held) - Cardinality(Moving \intersect Held)
  BY <1>2, <1>3, FS_Union
<1>6. TokenCount(c) \in Nat /\ Cardinality(HeldAt(c)) \in Nat
  BY CountTypes, HeldFinite DEF IInv, TypeOK, Networks
<1> QED BY <1>1, <1>2, <1>3, <1>4, <1>5, <1>6

LEMMA AwaitedAreCounted ==
  ASSUME IInv, NEW s \in ServerRanks, NEW t \in Slots
  PROVE  AwaitedReplies(s, t) = ReplyCount(s, t)
<1> DEFINE Awaited == Outs(s, t) \union Backs(s, t)
           P == Pending(net, ReplyFilter(s, t))
<1>0. PICK k \in Comms : k = "HP" /\ IsHP(k)
  BY DEF Comms, IsHP
<1> DEFINE out(d, j)  == <<<<k, s, d>>, j>>
           back(d, j) == <<<<k, d, s>>, j>>
           f == [w \in P |-> IF IsServerRequest(net[w[1]][w[2]]) THEN <<OutTag, w[1][3], w[2]>>
                             ELSE <<BackTag, w[1][2], w[2]>>]
<1>1. s \in Ranks /\ ServerRanks \subseteq Ranks
  BY RankKinds
<1>2. ASSUME NEW d \in ServerRanks, NEW j
      PROVE  /\ j \in OutAt(s, t, d)
                  <=> /\ j \in DOMAIN net[<<k, s, d>>] /\ IsServerRequest(net[<<k, s, d>>][j])
                      /\ net[<<k, s, d>>][j].tag = t
             /\ j \in BackAt(s, t, d)
                  <=> /\ j \in DOMAIN net[<<k, d, s>>] /\ IsAck(net[<<k, d, s>>][j])
                      /\ net[<<k, d, s>>][j].tag = t
  BY <1>0 DEF OutAt, BackAt, Places, IsServerRequest, IsAck
<1>3. ASSUME NEW d \in ServerRanks, NEW j
      PROVE  /\ j \in OutAt(s, t, d) => out(d, j) \in P
             /\ j \in BackAt(s, t, d) => back(d, j) \in P
  <2>1. <<k, s, d>> \in Channels /\ <<k, d, s>> \in Channels /\ d \in Ranks
    BY <1>1, ChannelTuple
  <2>2. ASSUME j \in OutAt(s, t, d) PROVE out(d, j) \in P
    <3>1. PICK m \in Message : m = net[<<k, s, d>>][j] /\ IsServerRequest(m) /\ m.tag = t
      BY <1>2, <2>1, <2>2, InNet
    <3>2. m \in ReplyFilter(s, t)[<<k, s, d>>]
      BY <1>0, <1>1, <2>1, <3>1, InReplyFilter
    <3> QED BY <1>2, <2>1, <2>2, <3>1, <3>2, PendingAt
  <2>3. ASSUME j \in BackAt(s, t, d) PROVE back(d, j) \in P
    <3>1. PICK m \in Message : m = net[<<k, d, s>>][j] /\ IsAck(m) /\ m.tag = t
      BY <1>2, <2>1, <2>3, InNet
    <3>2. m \in ReplyFilter(s, t)[<<k, d, s>>]
      BY <1>0, <1>1, <2>1, <3>1, InReplyFilter
    <3> QED BY <1>2, <2>1, <2>3, <3>1, <3>2, PendingAt
  <2> QED BY <2>2, <2>3
<1>4. ASSUME NEW w \in P
      PROVE  \E d \in ServerRanks : \E j : \/ w = out(d, j) /\ j \in OutAt(s, t, d)
                                           \/ w = back(d, j) /\ j \in BackAt(s, t, d)
  <2>1. PICK ch \in Channels : \E j \in DOMAIN net[ch] :
          net[ch][j] \in ReplyFilter(s, t)[ch] /\ w = <<ch, j>>
    BY <1>4, PendingIs
  <2>2. PICK j \in DOMAIN net[ch] : net[ch][j] \in ReplyFilter(s, t)[ch] /\ w = <<ch, j>>
    BY <2>1
  <2>3. ch = <<ch[1], ch[2], ch[3]>>
    BY DEF Channels
  <2>4. /\ ch[1] = k /\ ch[2] \in ServerRanks /\ ch[3] \in ServerRanks /\ net[ch][j].tag = t
        /\ \/ ch[2] = s /\ IsServerRequest(net[ch][j])
           \/ ch[3] = s /\ IsAck(net[ch][j])
    BY <1>0, <2>2 DEF ReplyFilter, IsServerRequest, IsAck
  <2>5. CASE ch[2] = s /\ IsServerRequest(net[ch][j])
    <3>1. ch = <<k, s, ch[3]>>
      BY <2>3, <2>4, <2>5
    <3>2. j \in OutAt(s, t, ch[3])
      BY <1>2, <2>4, <2>5, <3>1
    <3> QED BY <2>2, <2>4, <3>1, <3>2
  <2>6. CASE ch[3] = s /\ IsAck(net[ch][j])
    <3>1. ch = <<k, ch[2], s>>
      BY <2>3, <2>4, <2>6
    <3>2. j \in BackAt(s, t, ch[2])
      BY <1>2, <2>4, <2>6, <3>1
    <3> QED BY <2>2, <2>4, <3>1, <3>2
  <2> QED BY <2>4, <2>5, <2>6
<1> HIDE DEF P
<1>5. ASSUME NEW d \in ServerRanks, NEW j
      PROVE  /\ j \in OutAt(s, t, d) => f[out(d, j)] = <<OutTag, d, j>>
             /\ j \in BackAt(s, t, d) => f[back(d, j)] = <<BackTag, d, j>>
  <2>1. \A m : ~(IsServerRequest(m) /\ IsAck(m))
    BY DEF IsServerRequest, IsAck
  <2> QED BY <1>2, <1>3, <2>1
<1> HIDE DEF f
<1>6. f \in [P -> Awaited]
  <2>1. \A w \in P : f[w] \in Awaited
    <3> TAKE w \in P
    <3>1. PICK d, j : d \in ServerRanks /\ \/ w = out(d, j) /\ j \in OutAt(s, t, d)
                                           \/ w = back(d, j) /\ j \in BackAt(s, t, d)
      BY <1>4
    <3>2. \/ j \in OutAt(s, t, d) /\ f[w] = <<OutTag, d, j>>
          \/ j \in BackAt(s, t, d) /\ f[w] = <<BackTag, d, j>>
      BY <1>5, <3>1
    <3>3. CASE j \in OutAt(s, t, d) /\ f[w] = <<OutTag, d, j>>
      <4>1. f[w] \in Outs(s, t)
        BY <3>1, <3>3, InAwaited
      <4> QED BY <4>1
    <3>4. CASE j \in BackAt(s, t, d) /\ f[w] = <<BackTag, d, j>>
      <4>1. f[w] \in Backs(s, t)
        BY <3>1, <3>4, InAwaited
      <4> QED BY <4>1
    <3> QED BY <3>2, <3>3, <3>4
  <2>2. f = [w \in P |-> f[w]]
    BY DEF f
  <2> QED BY <2>1, <2>2
<1>7. \A v, w \in P : f[v] = f[w] => v = w
  <2> SUFFICES ASSUME NEW v \in P, NEW w \in P, f[v] = f[w] PROVE v = w
    OBVIOUS
  <2>1. ASSUME NEW x \in P
        PROVE  \E d \in ServerRanks : \E j : \/ x = out(d, j) /\ f[x] = <<OutTag, d, j>>
                                             \/ x = back(d, j) /\ f[x] = <<BackTag, d, j>>
    <3>1. PICK d, j : d \in ServerRanks /\ \/ x = out(d, j) /\ j \in OutAt(s, t, d)
                                           \/ x = back(d, j) /\ j \in BackAt(s, t, d)
      BY <1>4
    <3>2. \/ x = out(d, j) /\ f[x] = <<OutTag, d, j>>
          \/ x = back(d, j) /\ f[x] = <<BackTag, d, j>>
      BY <1>5, <3>1
    <3> HIDE DEF f, out, back
    <3> QED BY <3>1, <3>2
  <2>2. PICK d, j : d \in ServerRanks /\ \/ v = out(d, j) /\ f[v] = <<OutTag, d, j>>
                                         \/ v = back(d, j) /\ f[v] = <<BackTag, d, j>>
    BY <2>1
  <2>3. PICK e, i : e \in ServerRanks /\ \/ w = out(e, i) /\ f[w] = <<OutTag, e, i>>
                                         \/ w = back(e, i) /\ f[w] = <<BackTag, e, i>>
    BY <2>1
  <2> QED BY <2>2, <2>3, TagsDiffer
<1>8. \A z \in Awaited : \E w \in P : f[w] = z
  <2> TAKE z \in Awaited
  <2>1. CASE z \in Outs(s, t)
    <3>1. PICK d, j : d \in ServerRanks /\ j \in OutAt(s, t, d) /\ z = <<OutTag, d, j>>
      BY <2>1, InAwaited
    <3> QED BY <1>3, <1>5, <3>1
  <2>2. CASE z \in Backs(s, t)
    <3>1. PICK d, j : d \in ServerRanks /\ j \in BackAt(s, t, d) /\ z = <<BackTag, d, j>>
      BY <2>2, InAwaited
    <3> QED BY <1>3, <1>5, <3>1
  <2> QED BY <2>1, <2>2
<1>9. IsFiniteSet(P)
  <2>1. PICK n \in Networks : n = net
    BY DEF IInv, TypeOK, Networks
  <2> QED BY <2>1, PendingFinite DEF P
<1> HIDE DEF Awaited
<1>10. Cardinality(Awaited) = Cardinality(P)
  BY <1>6, <1>7, <1>8, <1>9, SameSize
<1>11. AwaitedReplies(s, t) = Cardinality(Awaited)
  BY DEF Awaited, AwaitedReplies, Outs, Backs, OutAt, BackAt
<1> QED BY <1>10, <1>11 DEF P, ReplyCount

\* Unless more clients chose a server than a word of the vector has bits, no request
\* is lost, answered twice or answered to the wrong client, whatever slots and tags
\* are reused (src/server.c:136-149 and 188-216).
THEOREM RequestsAreKept == Spec => [](FewRequests => OneTokenPerClient)
<1>1. IInv /\ (FewRequests => CountInv) => (FewRequests => OneTokenPerClient)
  BY TokensAreCounted DEF CountInv, Counts, TokenInv, OneTokenPerClient
<1> QED BY <1>1, IInvAlways, CountAlways, PTL

\* Under the same condition a continuation waits for exactly the replies that are on
\* their way, and a free slot for none (src/server.c:206-215).
THEOREM RepliesAreAccounted == Spec => [](FewRequests => RepliesAccounted)
<1>1. IInv /\ CountInv => RepliesAccounted
  <2> SUFFICES ASSUME IInv, CountInv, ~aborted, NEW s \in ServerRanks, NEW t \in Slots
               PROVE  IF t \in vector[s] THEN AwaitedReplies(s, t) = 0
                      ELSE /\ AwaitedReplies(s, t)
                                = continuations[s][t].numRepliesNeeded - continuations[s][t].replyCount
                           /\ AwaitedReplies(s, t) > 0
    BY DEF RepliesAccounted
  <2>1. SlotInv(s, t) /\ AwaitedReplies(s, t) = ReplyCount(s, t)
    BY AwaitedAreCounted DEF CountInv, Counts, SlotsInv
  <2>2. ReplyCount(s, t) \in Nat /\ continuations[s][t] \in Continuation
    BY CountTypes DEF IInv, TypeOK, Networks
  <2>3. continuations[s][t].replyCount \in Nat
    BY <2>2 DEF Continuation
  <2> QED BY <2>1, <2>2, <2>3 DEF SlotInv
<1> QED BY <1>1, IInvAlways, CountAlways, PTL

\* Under the same condition the job is aborted only when all the slots of a thread hold
\* requests of as many clients that wait (src/server.c:137-142).
THEOREM AbortsOnlyWhenFull == Spec => [](FewRequests => AbortOnlyWhenFull)
<1>1. (FewRequests => CountInv) => (FewRequests => AbortOnlyWhenFull)
  BY DEF CountInv
<1> QED BY <1>1, CountAlways, PTL

-------------------------------------------------------------------------------
(* The service: where the request of a client is                             *)

Waiting(c) == pc[c] = "wait"

\* The states of a client's request in HPService
IsIdle(c)         == servicePhase[c] = "idle" /\ serviceThread[c] = INVALID_INDEX
IsSubmitted(c, s) == servicePhase[c] = "submitted" /\ serviceThread[c] = s
IsServing(c, s)   == servicePhase[c] = "serving" /\ serviceThread[c] = s
IsAnswered(c, s)  == servicePhase[c] = "answered" /\ serviceThread[c] = s

\* Wherever the token of a waiting client is, the service has its request there, in
\* the phase of that place, and the request of any other client nowhere
PhaseOf(c) ==
  /\ ~Waiting(c) => IsIdle(c)
  /\ Waiting(c) => \E s \in ServerRanks : s \in Submitted(c) \/ s \in Serving(c) \/ s \in Answering(c)
  /\ \A s \in Submitted(c) : Waiting(c) /\ IsSubmitted(c, s)
  /\ \A s \in Serving(c) : Waiting(c) /\ IsServing(c, s)
  /\ \A s \in Answering(c) : Waiting(c) /\ IsAnswered(c, s)

PhaseInv == \A c \in Clients : PhaseOf(c)

LEMMA AtPlaces ==
  ASSUME IInv, NEW c \in Clients, NEW s \in ServerRanks
  PROVE  /\ s \in Submitted(c) <=> \E j : <<<<"HP", c, s>>, j>> \in Pending(net, TokenFilter(c))
         /\ s \in Answering(c) <=> \E j : <<<<"HP", s, c>>, j>> \in Pending(net, TokenFilter(c))
         /\ s \in Serving(c) <=> \E t \in Slots : <<s, t>> \in HeldAt(c)
<1>1. PICK k \in Comms : k = "HP" /\ IsHP(k)
  BY DEF Comms, IsHP
<1>2. c \in Ranks /\ s \in Ranks /\ c \notin ServerRanks /\ s \notin Clients
  BY RankKinds
<1>3. PICK ask \in Channels : ask = <<k, c, s>>
  BY <1>2, ChannelTuple
<1>4. PICK ack \in Channels : ack = <<k, s, c>>
  BY <1>2, ChannelTuple
<1>5. \A j \in DOMAIN net[ask] :
        net[ask][j] \in TokenFilter(c)[ask] <=> net[ask][j].kind = "HP REQUEST"
  <2> SUFFICES ASSUME NEW j \in DOMAIN net[ask]
               PROVE  net[ask][j] \in TokenFilter(c)[ask] <=> IsRequest(net[ask][j])
    BY DEF IsRequest
  <2>1. PICK m \in Message : m = net[ask][j]
    BY InNet
  <2> QED BY <1>1, <1>2, <1>3, <2>1, InTokenFilter
<1>6. \A j \in DOMAIN net[ack] : net[ack][j] \in TokenFilter(c)[ack]
  <2> SUFFICES ASSUME NEW j \in DOMAIN net[ack] PROVE net[ack][j] \in TokenFilter(c)[ack]
    OBVIOUS
  <2>1. PICK m \in Message : m = net[ack][j]
    BY InNet
  <2> QED BY <1>1, <1>2, <1>4, <2>1, InTokenFilter
<1>7. s \in Submitted(c) <=> \E j \in DOMAIN net[ask] : net[ask][j].kind = "HP REQUEST"
  BY <1>1, <1>3 DEF Submitted, Places
<1>8. s \in Answering(c) <=> \E j : j \in DOMAIN net[ack]
  <2>1. PICK q \in Seq(Message) : q = net[ack]
    BY DEF IInv, TypeOK
  <2>2. q # <<>> <=> \E j : j \in DOMAIN q
    <3>1. Len(q) \in Nat /\ DOMAIN q = 1 .. Len(q) /\ (q = <<>> <=> Len(q) = 0)
      BY EmptySeq, LenProperties
    <3>2. q # <<>> => 1 \in DOMAIN q
      BY <3>1
    <3>3. q = <<>> => DOMAIN q = {}
      BY <3>1
    <3> QED BY <3>2, <3>3
  <2>3. s \in Answering(c) <=> q # <<>>
    BY <1>1, <1>4, <2>1 DEF Answering
  <2> QED BY <2>1, <2>2, <2>3
<1>9. s \in Submitted(c) <=> \E j : <<ask, j>> \in Pending(net, TokenFilter(c))
  BY <1>5, <1>7, PendingAt
<1>10. s \in Answering(c) <=> \E j : <<ack, j>> \in Pending(net, TokenFilter(c))
  BY <1>6, <1>8, PendingAt
<1>11. s \in Serving(c) <=> \E t \in Slots : <<s, t>> \in HeldAt(c)
  <2>1. \A t \in Slots : t \in HeldFor(s, c) <=> <<s, t>> \in HeldAt(c)
    BY DEF HeldFor, HeldAt
  <2>2. HeldFor(s, c) \subseteq Slots
    BY DEF HeldFor
  <2> QED BY <2>1, <2>2 DEF Serving
<1> QED BY <1>1, <1>3, <1>4, <1>9, <1>10, <1>11

\* There is one such place at most
LEMMA TokenOnce ==
  ASSUME IInv, Counts, NEW c \in Clients
  PROVE  /\ \A x, y \in Pending(net, TokenFilter(c)) : x = y
         /\ \A x \in Pending(net, TokenFilter(c)) : Waiting(c) /\ HeldAt(c) = {}
         /\ Waiting(c) => Pending(net, TokenFilter(c)) # {} \/ HeldAt(c) # {}
<1>1. PICK S : S = HeldAt(c)
  OBVIOUS
<1>2. PICK n \in Networks : n = net
  BY DEF IInv, TypeOK, Networks
<1>3. PICK P : P = Pending(n, TokenFilter(c))
  OBVIOUS
<1>4. /\ IsFiniteSet(S) /\ Cardinality(S) \in Nat
      /\ IsFiniteSet(P) /\ Cardinality(P) \in Nat
  BY <1>1, <1>3, HeldFinite, PendingFinite
<1>5. Cardinality(P) + Cardinality(S) = IF Waiting(c) THEN 1 ELSE 0
  BY <1>1, <1>2, <1>3 DEF Counts, TokenInv, TokenCount, Waiting
<1>6. (Cardinality(S) = 0 <=> S = {}) /\ (Cardinality(P) = 0 <=> P = {})
  BY <1>4, FS_EmptySet
<1>7. P # {} => Waiting(c) /\ S = {} /\ Cardinality(P) = 1
  BY <1>4, <1>5, <1>6
<1>8. Waiting(c) => P # {} \/ S # {}
  BY <1>4, <1>5, <1>6
<1>9. ASSUME NEW x \in P, NEW y \in P PROVE x = y
  <2>1. IsFiniteSet(P \ {x}) /\ Cardinality(P \ {x}) = 0
    BY <1>4, <1>7, FS_RemoveElement
  <2>2. P \ {x} = {}
    BY <2>1, FS_EmptySet
  <2> QED BY <2>2
<1> QED BY <1>1, <1>2, <1>3, <1>7, <1>8, <1>9

LEMMA OnePlace ==
  ASSUME IInv, Counts, NEW c \in Clients
  PROVE  /\ Waiting(c) <=> \E s \in ServerRanks : s \in Submitted(c) \/ s \in Serving(c) \/ s \in Answering(c)
         /\ \A s \in Submitted(c), r \in ServerRanks :
              r \notin Serving(c) /\ r \notin Answering(c) /\ (r \in Submitted(c) => r = s)
         /\ \A s \in Serving(c), r \in ServerRanks :
              r \notin Submitted(c) /\ r \notin Answering(c) /\ (r \in Serving(c) => r = s)
         /\ \A s \in Answering(c), r \in ServerRanks :
              r \notin Submitted(c) /\ r \notin Serving(c) /\ (r \in Answering(c) => r = s)
<1> DEFINE P == Pending(net, TokenFilter(c))
<1>1. Submitted(c) \subseteq ServerRanks /\ Serving(c) \subseteq ServerRanks /\ Answering(c) \subseteq ServerRanks
  BY DEF Submitted, Serving, Answering
<1>2. c \notin ServerRanks
  BY RankKinds
<1>3. ASSUME NEW s \in Submitted(c), NEW r \in ServerRanks
      PROVE  r \notin Serving(c) /\ r \notin Answering(c) /\ (r \in Submitted(c) => r = s)
  <2>1. PICK j : <<<<"HP", c, s>>, j>> \in P
    BY <1>1, AtPlaces
  <2>2. HeldAt(c) = {}
    BY <2>1, TokenOnce
  <2>3. ASSUME r \in Answering(c) PROVE FALSE
    <3>1. PICK i : <<<<"HP", r, c>>, i>> \in P
      BY <2>3, AtPlaces
    <3>2. <<<<"HP", r, c>>, i>> = <<<<"HP", c, s>>, j>>
      BY <2>1, <3>1, TokenOnce
    <3> QED BY <1>2, <3>2
  <2>4. ASSUME r \in Submitted(c) PROVE r = s
    <3>1. PICK i : <<<<"HP", c, r>>, i>> \in P
      BY <2>4, AtPlaces
    <3>2. <<<<"HP", c, r>>, i>> = <<<<"HP", c, s>>, j>>
      BY <2>1, <3>1, TokenOnce
    <3> QED BY <3>2
  <2> QED BY <2>2, <2>3, <2>4, AtPlaces
<1>4. ASSUME NEW s \in Answering(c), NEW r \in ServerRanks
      PROVE  r \notin Submitted(c) /\ r \notin Serving(c) /\ (r \in Answering(c) => r = s)
  <2>1. PICK j : <<<<"HP", s, c>>, j>> \in P
    BY <1>1, AtPlaces
  <2>2. HeldAt(c) = {}
    BY <2>1, TokenOnce
  <2>3. ASSUME r \in Answering(c) PROVE r = s
    <3>1. PICK i : <<<<"HP", r, c>>, i>> \in P
      BY <2>3, AtPlaces
    <3>2. <<<<"HP", r, c>>, i>> = <<<<"HP", s, c>>, j>>
      BY <2>1, <3>1, TokenOnce
    <3> QED BY <3>2
  <2> QED BY <1>1, <1>3, <2>2, <2>3, AtPlaces
<1>5. ASSUME NEW s \in Serving(c), NEW r \in ServerRanks
      PROVE  r \notin Submitted(c) /\ r \notin Answering(c) /\ (r \in Serving(c) => r = s)
  <2>1. PICK t \in Slots : <<s, t>> \in HeldAt(c)
    BY <1>1, AtPlaces
  <2>2. ASSUME r \in Serving(c) PROVE r = s
    <3>1. PICK u \in Slots : <<r, u>> \in HeldAt(c)
      BY <2>2, AtPlaces
    <3>2. <<r, u>> = <<s, t>>
      BY <2>1, <3>1, HeldOnce
    <3> QED BY <3>2
  <2> QED BY <1>1, <1>3, <1>4, <2>2
<1>6. ASSUME NEW s \in ServerRanks, s \in Submitted(c) \/ s \in Serving(c) \/ s \in Answering(c)
      PROVE  Waiting(c)
  <2>1. CASE s \in Submitted(c) \/ s \in Answering(c)
    <3>1. P # {}
      BY <2>1, AtPlaces
    <3> QED BY <3>1, TokenOnce
  <2>2. CASE s \in Serving(c)
    <3>1. HeldAt(c) # {}
      BY <2>2, AtPlaces
    <3> QED BY <3>1, HeldOnce DEF Waiting
  <2> QED BY <1>6, <2>1, <2>2
<1>7. ASSUME Waiting(c)
      PROVE  \E s \in ServerRanks : s \in Submitted(c) \/ s \in Serving(c) \/ s \in Answering(c)
  <2>1. CASE HeldAt(c) # {}
    <3>1. PICK s \in ServerRanks, t \in Slots : <<s, t>> \in HeldAt(c)
      BY <2>1 DEF HeldAt
    <3> QED BY <3>1, AtPlaces
  <2>2. CASE HeldAt(c) = {}
    <3>1. PICK w \in P : TRUE
      BY <1>7, <2>2, TokenOnce
    <3>2. PICK ch \in Channels : \E j \in DOMAIN net[ch] : net[ch][j] \in TokenFilter(c)[ch] /\ w = <<ch, j>>
      BY PendingIs
    <3>3. PICK k \in Comms, p \in Ranks, d \in Ranks : ch = <<k, p, d>>
      BY DEF Channels
    <3>4. PICK j \in DOMAIN net[ch], m \in Message :
            m = net[ch][j] /\ net[ch][j] \in TokenFilter(c)[ch] /\ w = <<ch, j>>
      BY <3>2, InNet
    <3>5. IsHP(k) /\ ((p = c /\ d \in ServerRanks) \/ (p \in ServerRanks /\ d = c))
      BY <3>3, <3>4, InTokenFilter
    <3>6. \/ d \in ServerRanks /\ ch = <<"HP", c, d>>
          \/ p \in ServerRanks /\ ch = <<"HP", p, c>>
      BY <3>3, <3>5 DEF IsHP
    <3> QED BY <3>4, <3>6, AtPlaces
  <2> QED BY <2>1, <2>2
<1> QED BY <1>3, <1>4, <1>5, <1>6, <1>7

LEMMA PhaseHolds == IInv /\ Counts => PhaseInv
<1> SUFFICES ASSUME IInv, Counts, NEW c \in Clients PROVE PhaseOf(c)
  BY DEF PhaseInv
<1> DEFINE T == Submitted(c) \union Serving(c) \union Answering(c)
<1>1. Submitted(c) \subseteq ServerRanks /\ Serving(c) \subseteq ServerRanks /\ Answering(c) \subseteq ServerRanks
  BY DEF Submitted, Serving, Answering
<1>2. /\ servicePhase[c] = IF Submitted(c) # {} THEN "submitted"
                           ELSE IF Serving(c) # {} THEN "serving"
                           ELSE IF Answering(c) # {} THEN "answered" ELSE "idle"
      /\ serviceThread[c] = IF T = {} THEN INVALID_INDEX ELSE CHOOSE s \in T : TRUE
  BY DEF servicePhase, serviceThread
<1> HIDE DEF T
<1>3. ASSUME NEW s, T = {s} PROVE serviceThread[c] = s
  <2>1. \A x \in T : x = s
    BY <1>3
  <2>2. s \in T
    BY <1>3
  <2>3. (CHOOSE x \in T : TRUE) \in T
    BY <2>2
  <2> QED BY <1>2, <2>1, <2>2, <2>3
<1>4. ASSUME ~Waiting(c) PROVE IsIdle(c)
  <2>1. Submitted(c) = {} /\ Serving(c) = {} /\ Answering(c) = {}
    BY <1>1, <1>4, OnePlace
  <2> QED BY <1>2, <2>1 DEF IsIdle, T
<1>5. ASSUME NEW s \in Submitted(c) PROVE Waiting(c) /\ IsSubmitted(c, s)
  <2>1. Submitted(c) = {s} /\ Serving(c) = {} /\ Answering(c) = {} /\ Waiting(c)
    BY <1>1, OnePlace
  <2>2. T = {s}
    BY <2>1 DEF T
  <2> QED BY <1>2, <1>3, <2>1, <2>2 DEF IsSubmitted
<1>6. ASSUME NEW s \in Serving(c) PROVE Waiting(c) /\ IsServing(c, s)
  <2>1. Submitted(c) = {} /\ Serving(c) = {s} /\ Answering(c) = {} /\ Waiting(c)
    BY <1>1, OnePlace
  <2>2. T = {s}
    BY <2>1 DEF T
  <2> QED BY <1>2, <1>3, <2>1, <2>2 DEF IsServing
<1>7. ASSUME NEW s \in Answering(c) PROVE Waiting(c) /\ IsAnswered(c, s)
  <2>1. Submitted(c) = {} /\ Serving(c) = {} /\ Answering(c) = {s} /\ Waiting(c)
    BY <1>1, OnePlace
  <2>2. T = {s}
    BY <2>1 DEF T
  <2> QED BY <1>2, <1>3, <2>1, <2>2 DEF IsAnswered
<1> QED BY <1>4, <1>5, <1>6, <1>7, OnePlace DEF PhaseOf

-------------------------------------------------------------------------------
(* The service: what makes a step of it                                      *)

\* The request of c stays where it is
Kept(c) ==
  /\ Waiting(c)' <=> Waiting(c)
  /\ Waiting(c) => /\ Submitted(c) \subseteq Submitted(c)'
                   /\ Serving(c) \subseteq Serving(c)'
                   /\ Answering(c) \subseteq Answering(c)'

LEMMA SamePhase ==
  ASSUME PhaseInv, PhaseInv', NEW c \in Clients, Kept(c)
  PROVE  servicePhase'[c] = servicePhase[c] /\ serviceThread'[c] = serviceThread[c]
<1>1. PhaseOf(c) /\ PhaseOf(c)'
  BY DEF PhaseInv
<1>2. CASE ~Waiting(c)
  <2>1. IsIdle(c) /\ IsIdle(c)'
    BY <1>1, <1>2 DEF PhaseOf, Kept
  <2> QED BY <2>1 DEF IsIdle
<1>3. CASE Waiting(c)
  <2>1. PICK s \in ServerRanks : s \in Submitted(c) \/ s \in Serving(c) \/ s \in Answering(c)
    BY <1>1, <1>3 DEF PhaseOf
  <2>2. CASE s \in Submitted(c)
    <3>1. s \in Submitted(c)'
      BY <1>3, <2>2 DEF Kept
    <3>2. IsSubmitted(c, s) /\ IsSubmitted(c, s)'
      BY <1>1, <2>2, <3>1 DEF PhaseOf
    <3> QED BY <3>2 DEF IsSubmitted
  <2>3. CASE s \in Serving(c)
    <3>1. s \in Serving(c)'
      BY <1>3, <2>3 DEF Kept
    <3>2. IsServing(c, s) /\ IsServing(c, s)'
      BY <1>1, <2>3, <3>1 DEF PhaseOf
    <3> QED BY <3>2 DEF IsServing
  <2>4. CASE s \in Answering(c)
    <3>1. s \in Answering(c)'
      BY <1>3, <2>4 DEF Kept
    <3>2. IsAnswered(c, s) /\ IsAnswered(c, s)'
      BY <1>1, <2>4, <3>1 DEF PhaseOf
    <3> QED BY <3>2 DEF IsAnswered
  <2> QED BY <2>1, <2>2, <2>3, <2>4
<1> QED BY <1>2, <1>3

\* A step that moves the request of b at most
LEMMA ServiceOne ==
  ASSUME PhaseInv, PhaseInv', NEW b \in Clients, \A c \in Clients : c # b => Kept(c),
         NEW ph, servicePhase'[b] = ph, NEW t, serviceThread'[b] = t
  PROVE  /\ servicePhase' = [servicePhase EXCEPT ![b] = ph]
         /\ serviceThread' = [serviceThread EXCEPT ![b] = t]
<1>1. \A c \in Clients : c # b => servicePhase'[c] = servicePhase[c] /\ serviceThread'[c] = serviceThread[c]
  BY SamePhase
<1>2. PICK f, f2, g, g2 : /\ f = servicePhase /\ f2 = servicePhase'
                          /\ g = serviceThread /\ g2 = serviceThread'
  OBVIOUS
<1>3. /\ f = [c \in Clients |-> f[c]] /\ f2 = [c \in Clients |-> f2[c]]
      /\ g = [c \in Clients |-> g[c]] /\ g2 = [c \in Clients |-> g2[c]]
  BY <1>2 DEF servicePhase, serviceThread
<1>4. /\ \A c \in Clients : f2[c] = IF c = b THEN ph ELSE f[c]
      /\ \A c \in Clients : g2[c] = IF c = b THEN t ELSE g[c]
  BY <1>1, <1>2
<1>5. f2 = [f EXCEPT ![b] = ph] /\ g2 = [g EXCEPT ![b] = t]
  BY <1>3, <1>4
<1> QED BY <1>2, <1>5

LEMMA ServiceStutters ==
  ASSUME PhaseInv, PhaseInv', \A c \in Clients : Kept(c)
  PROVE  UNCHANGED Service!vars
<1>1. PICK f, f2, g, g2 : /\ f = servicePhase /\ f2 = servicePhase'
                          /\ g = serviceThread /\ g2 = serviceThread'
  OBVIOUS
<1>2. /\ f = [c \in Clients |-> f[c]] /\ f2 = [c \in Clients |-> f2[c]]
      /\ g = [c \in Clients |-> g[c]] /\ g2 = [c \in Clients |-> g2[c]]
  BY <1>1 DEF servicePhase, serviceThread
<1>3. \A c \in Clients : f2[c] = f[c] /\ g2[c] = g[c]
  BY <1>1, SamePhase
<1>4. f2 = f /\ g2 = g
  BY <1>2, <1>3
<1> QED BY <1>1, <1>4 DEF Service!vars

LEMMA IsSubmit ==
  ASSUME PhaseInv, PhaseInv', NEW b \in Clients, \A c \in Clients : c # b => Kept(c),
         ~Waiting(b), NEW s \in ServerRanks, s \in Submitted(b)'
  PROVE  Service!Submit(b)
<1>1. IsIdle(b) /\ IsSubmitted(b, s)'
  BY DEF PhaseInv, PhaseOf
<1>2. servicePhase[b] = "idle" /\ servicePhase'[b] = "submitted" /\ serviceThread'[b] = s
  BY <1>1 DEF IsIdle, IsSubmitted
<1>3. /\ servicePhase' = [servicePhase EXCEPT ![b] = "submitted"]
      /\ serviceThread' = [serviceThread EXCEPT ![b] = s]
  BY <1>2, ServiceOne
<1> QED BY <1>2, <1>3 DEF Service!Submit

\* HPService has a Cardinality of its own
LEMMA SameCardinality ==
  ASSUME NEW S
  PROVE  Service!Cardinality(S) = Cardinality(S)
BY DEF Service!Cardinality, Cardinality

LEMMA IsServe ==
  ASSUME PhaseInv, PhaseInv', NEW b \in Clients, \A c \in Clients : c # b => Kept(c),
         NEW s \in ServerRanks, s \in Submitted(b), s \in Serving(b)',
         Cardinality(Service!ServedBy(s)) < NumBits
  PROVE  Service!Serve(b)
<1>1. IsSubmitted(b, s) /\ IsServing(b, s)'
  BY DEF PhaseInv, PhaseOf
<1>2. /\ servicePhase[b] = "submitted" /\ serviceThread[b] = s
      /\ servicePhase'[b] = "serving" /\ serviceThread'[b] = s
  BY <1>1 DEF IsSubmitted, IsServing
<1>3. /\ servicePhase' = [servicePhase EXCEPT ![b] = "serving"]
      /\ serviceThread' = [serviceThread EXCEPT ![b] = s]
  BY <1>2, ServiceOne
<1>4. UNCHANGED serviceThread
  BY <1>2, <1>3 DEF serviceThread
<1>5. Service!Cardinality(Service!ServedBy(serviceThread[b])) < NumBits
  BY <1>2, SameCardinality
<1> QED BY <1>2, <1>3, <1>4, <1>5 DEF Service!Serve

LEMMA IsAnswer ==
  ASSUME PhaseInv, PhaseInv', NEW b \in Clients, \A c \in Clients : c # b => Kept(c),
         NEW s \in ServerRanks, s \in Submitted(b) \/ s \in Serving(b), s \in Answering(b)'
  PROVE  Service!Answer(b)
<1>1. (IsSubmitted(b, s) \/ IsServing(b, s)) /\ IsAnswered(b, s)'
  BY DEF PhaseInv, PhaseOf
<1>2. /\ servicePhase[b] \in {"submitted", "serving"} /\ serviceThread[b] = s
      /\ servicePhase'[b] = "answered" /\ serviceThread'[b] = s
  BY <1>1 DEF IsSubmitted, IsServing, IsAnswered
<1>3. /\ servicePhase' = [servicePhase EXCEPT ![b] = "answered"]
      /\ serviceThread' = [serviceThread EXCEPT ![b] = s]
  BY <1>2, ServiceOne
<1>4. UNCHANGED serviceThread
  BY <1>2, <1>3 DEF serviceThread
<1> QED BY <1>2, <1>3, <1>4 DEF Service!Answer

LEMMA IsCollect ==
  ASSUME PhaseInv, PhaseInv', NEW b \in Clients, \A c \in Clients : c # b => Kept(c),
         NEW s \in ServerRanks, s \in Answering(b), ~Waiting(b)'
  PROVE  Service!Collect(b)
<1>1. IsAnswered(b, s) /\ IsIdle(b)'
  BY DEF PhaseInv, PhaseOf
<1>2. /\ servicePhase[b] = "answered"
      /\ servicePhase'[b] = "idle" /\ serviceThread'[b] = INVALID_INDEX
  BY <1>1 DEF IsIdle, IsAnswered
<1>3. /\ servicePhase' = [servicePhase EXCEPT ![b] = "idle"]
      /\ serviceThread' = [serviceThread EXCEPT ![b] = INVALID_INDEX]
  BY <1>2, ServiceOne
<1> QED BY <1>2, <1>3 DEF Service!Collect

-------------------------------------------------------------------------------
(* The service: what the steps of clients and threads do to requests         *)

\* There is a request in channel q
Asks(q) == \E j \in DOMAIN q : IsRequest(q[j])

LEMMA AsksAppend ==
  ASSUME NEW q \in Seq(Message), NEW m \in Message
  PROVE  /\ Asks(q) => Asks(Append(q, m))
         /\ IsRequest(m) => Asks(Append(q, m))
         /\ Append(q, m) # <<>>
<1>1. /\ DOMAIN q = 1 .. Len(q) /\ Len(q) \in Nat
      /\ DOMAIN Append(q, m) = 1 .. Len(q) + 1
      /\ \A j \in 1 .. Len(q) : Append(q, m)[j] = q[j]
      /\ Append(q, m)[Len(q) + 1] = m
      /\ Append(q, m) # <<>>
  BY AppendProperties, LenProperties
<1> QED BY <1>1 DEF Asks

LEMMA AsksTail ==
  ASSUME NEW q \in Seq(Message), q # <<>>
  PROVE  /\ IsRequest(Head(q)) => Asks(q)
         /\ Asks(q) /\ ~IsRequest(Head(q)) => Asks(Tail(q))
<1>1. Len(q) \in Nat /\ Len(q) > 0 /\ DOMAIN q = 1 .. Len(q)
  BY EmptySeq, LenProperties
<1>2. Head(q) = q[1]
  BY <1>1
<1>3. /\ Tail(q) \in Seq(Message)
      /\ DOMAIN Tail(q) = 1 .. Len(q) - 1
      /\ \A n \in 1 .. Len(q) - 1 : Tail(q)[n] = q[n + 1]
  BY <1>1, HeadTailProperties
<1>4. ASSUME NEW j \in DOMAIN q, IsRequest(q[j]), ~IsRequest(q[1]) PROVE Asks(Tail(q))
  <2>1. j # 1 /\ j - 1 \in 1 .. Len(q) - 1 /\ (j - 1) + 1 = j
    BY <1>1, <1>4
  <2>2. Tail(q)[j - 1] = q[j]
    BY <1>3, <2>1
  <2> QED BY <1>3, <1>4, <2>1, <2>2 DEF Asks
<1> QED BY <1>1, <1>2, <1>4 DEF Asks

\* Where the request of c is, in terms of the channels
LEMMA InChannels ==
  ASSUME NEW c, NEW s \in ServerRanks
  PROVE  /\ s \in Submitted(c) <=> Asks(net[<<"HP", c, s>>])
         /\ s \in Answering(c) <=> net[<<"HP", s, c>>] # <<>>
         /\ (s \in Submitted(c))' <=> Asks(net'[<<"HP", c, s>>])
         /\ (s \in Answering(c))' <=> net'[<<"HP", s, c>>] # <<>>
BY DEF Submitted, Answering, Places, Asks, IsRequest

LEMMA KeptIs ==
  ASSUME NEW c \in Clients, pc'[c] = pc[c],
         ASSUME NEW s \in ServerRanks
         PROVE  /\ Asks(net[<<"HP", c, s>>]) => Asks(net'[<<"HP", c, s>>])
                /\ net[<<"HP", s, c>>] # <<>> => net'[<<"HP", s, c>>] # <<>>
                /\ HeldFor(s, c) \subseteq HeldFor(s, c)'
  PROVE  Kept(c)
<1>1. Waiting(c)' <=> Waiting(c)
  BY DEF Waiting
<1>2. Submitted(c) \subseteq ServerRanks /\ Serving(c) \subseteq ServerRanks /\ Answering(c) \subseteq ServerRanks
  BY DEF Submitted, Serving, Answering
<1>3. ASSUME NEW s \in Submitted(c) PROVE s \in Submitted(c)'
  BY <1>2, InChannels
<1>4. ASSUME NEW s \in Answering(c) PROVE s \in Answering(c)'
  BY <1>2, InChannels
<1>5. ASSUME NEW s \in Serving(c) PROVE s \in Serving(c)'
  BY <1>2 DEF Serving
<1> QED BY <1>1, <1>3, <1>4, <1>5 DEF Kept

\* A client leaves the channels and slots of the others alone
LEMMA ClientLocal ==
  ASSUME IInv, NEW c \in Clients, ClientStep(c) \/ Signal(c),
         NEW b \in Clients, b # c
  PROVE  Kept(b)
<1>0. /\ net \in [Channels -> Seq(Message)] /\ pc \in [Clients -> {"LP", "HP", "wait", "done"}]
      /\ b \in Ranks /\ c \in Ranks /\ b \notin ServerRanks /\ c \notin ServerRanks
  BY RankKinds DEF IInv, TypeOK
<1>1. pc'[b] = pc[b] /\ UNCHANGED <<vector, continuations>>
  BY <1>0 DEF ClientStep, SendLPReq, SkipLPReq, SendHPReq, SkipHPReq, WaitHPReply, Finish, Signal, serverVars
<1>2. ASSUME NEW s \in ServerRanks
      PROVE  HeldFor(s, b)' = HeldFor(s, b)
  BY <1>1 DEF HeldFor
<1>3. ASSUME NEW k \in Comms, NEW s \in ServerRanks
      PROVE  net'[<<k, b, s>>] = net[<<k, b, s>>] /\ net'[<<k, s, b>>] = net[<<k, s, b>>]
  <2>0. s \in Ranks /\ s # c
    BY <1>0, RankKinds
  <2>1. PICK to \in Channels : to = <<k, b, s>>
    BY <1>0, <2>0, ChannelTuple
  <2>2. PICK from \in Channels : from = <<k, s, b>>
    BY <1>0, <2>0, ChannelTuple
  <2>3. ASSUME NEW ch \in Channels, ch[2] # c, ch[3] # c PROVE net'[ch] = net[ch]
    <3>1. CASE UNCHANGED net
      BY <3>1
    <3>2. CASE \E x \in Comms, d \in ServerRanks, m \in Message : net' = Post(net, x, c, d, m)
      BY <1>0, <2>3, <3>2 DEF Post
    <3>3. CASE \E x \in Comms, d \in Ranks : net' = Consumed(x, d, c)
      BY <1>0, <2>3, <3>3 DEF Consumed
    <3>4. CASE Finish(c)
      BY <1>0, <2>3, <3>4 DEF Finish
    <3>5. CASE SendLPReq(c)
      <4>1. Msg("LP REQUEST", 0) \in Message /\ "LP" \in Comms
        BY MsgType, ZeroIsSlot DEF Kinds, Comms
      <4>2. \E x \in Comms, d \in ServerRanks, m \in Message : net' = Post(net, x, c, d, m)
        BY <3>5, <4>1, RankKinds DEF SendLPReq, IInv, TypeOK
      <4> QED BY <3>2, <4>2
    <3>6. CASE SendHPReq(c)
      <4>1. Msg("HP REQUEST", 0) \in Message /\ "HP" \in Comms
        BY MsgType, ZeroIsSlot DEF Kinds, Comms
      <4>2. \E x \in Comms, d \in ServerRanks, m \in Message : net' = Post(net, x, c, d, m)
        BY <3>6, <4>1, RankKinds DEF SendHPReq, IInv, TypeOK
      <4> QED BY <3>2, <4>2
    <3>7. CASE WaitHPReply(c)
      BY <3>3, <3>7 DEF WaitHPReply, Comms
    <3>8. CASE SkipLPReq(c) \/ SkipHPReq(c) \/ Signal(c)
      BY <3>1, <3>8 DEF SkipLPReq, SkipHPReq, Signal
    <3> QED BY <3>4, <3>5, <3>6, <3>7, <3>8 DEF ClientStep
  <2> QED BY <2>0, <2>1, <2>2, <2>3
<1>4. PICK k \in Comms : k = "HP"
  BY DEF Comms
<1>5. ASSUME NEW s \in ServerRanks
      PROVE  /\ Asks(net[<<"HP", b, s>>]) => Asks(net'[<<"HP", b, s>>])
             /\ net[<<"HP", s, b>>] # <<>> => net'[<<"HP", s, b>>] # <<>>
             /\ HeldFor(s, b) \subseteq HeldFor(s, b)'
  <2>1. net'[<<"HP", b, s>>] = net[<<"HP", b, s>>] /\ net'[<<"HP", s, b>>] = net[<<"HP", s, b>>]
    BY <1>3, <1>4
  <2> QED BY <1>2, <2>1
<1> QED BY <1>1, <1>5, KeptIs

\* What a client does is Submit, Collect or nothing to the service
LEMMA ClientService ==
  ASSUME IInv, PhaseInv, PhaseInv', NEW c \in Clients, ClientStep(c) \/ Signal(c)
  PROVE  [Service!Next]_(Service!vars)
<1>0. /\ net \in Networks /\ pc \in [Clients -> {"LP", "HP", "wait", "done"}]
      /\ targetServerID[c] \in Servers /\ c \in Ranks
  BY RankKinds DEF IInv, TypeOK, Networks
<1>1. \A b \in Clients : b # c => Kept(b)
  BY ClientLocal
<1>2. CASE SendHPReq(c)
  <2>1. PICK k \in Comms : k = "HP"
    BY DEF Comms
  <2>2. PICK m \in Message : m = Msg("HP REQUEST", 0) /\ IsRequest(m)
    BY MsgType, ZeroIsSlot DEF Kinds, IsRequest, Msg
  <2>3. PICK s \in ServerRanks : net' = Post(net, k, c, s, m)
    BY <1>0, <1>2, <2>1, <2>2, RankKinds DEF SendHPReq
  <2>4. PICK ch \in Channels : ch = <<k, c, s>>
    BY <1>0, ChannelTuple, RankKinds
  <2>5. net'[ch] = Append(net[ch], m) /\ net[ch] \in Seq(Message)
    BY <1>0, <2>3, <2>4 DEF Post, Networks
  <2>6. Asks(net'[ch])
    BY <2>2, <2>5, AsksAppend
  <2>7. s \in Submitted(c)'
    BY <2>1, <2>4, <2>6, InChannels
  <2>8. ~Waiting(c)
    BY <1>2 DEF SendHPReq, Waiting
  <2>9. Service!Submit(c)
    BY <1>1, <2>7, <2>8, IsSubmit
  <2> QED BY <2>9 DEF Service!Next
<1>3. CASE WaitHPReply(c)
  <2>1. PICK k \in Comms : k = "HP"
    BY DEF Comms
  <2>2. PICK s \in Ranks : Arrived(k, s, c)
    BY <1>3, <2>1 DEF WaitHPReply
  <2>3. PICK q \in Seq(Message) : q = net[<<k, s, c>>] /\ q # <<>>
    BY <1>0, <2>2, ChannelTuple DEF Arrived, Networks
  <2>4. 1 \in DOMAIN q
    BY <2>3, EmptySeq, LenProperties
  <2>5. s \in HPRanks(targetServerID[c])
    BY <2>3, <2>4, AcksFromTargetInv DEF AcksFromTarget
  <2>6. s \in ServerRanks
    BY <1>0, <2>5, RankKinds DEF ThreadsFor, Comms
  <2>7. s \in Answering(c)
    BY <2>1, <2>3, <2>6, InChannels
  <2>8. ~Waiting(c)'
    BY <1>0, <1>3 DEF WaitHPReply, Waiting
  <2>9. Service!Collect(c)
    BY <1>1, <2>6, <2>7, <2>8, IsCollect
  <2> QED BY <2>9 DEF Service!Next, Service!Progress
<1>4. CASE SendLPReq(c) \/ SkipLPReq(c) \/ SkipHPReq(c) \/ Finish(c)
  <2>1. ~Waiting(c) /\ ~Waiting(c)'
    BY <1>0, <1>4 DEF SendLPReq, SkipLPReq, SkipHPReq, Finish, Waiting
  <2>2. Kept(c)
    BY <2>1 DEF Kept
  <2>3. UNCHANGED Service!vars
    BY <1>1, <2>2, ServiceStutters
  <2> QED BY <2>3
<1>5. CASE Signal(c)
  <2>1. UNCHANGED <<net, pc, vector, continuations>>
    BY <1>5 DEF Signal, serverVars
  <2>2. Kept(c)
    <3>1. ASSUME NEW s \in ServerRanks PROVE HeldFor(s, c)' = HeldFor(s, c)
      BY <2>1 DEF HeldFor
    <3> QED BY <2>1, <3>1, KeptIs
  <2>3. UNCHANGED Service!vars
    BY <1>1, <2>2, ServiceStutters
  <2> QED BY <2>3
<1> QED BY <1>2, <1>3, <1>4, <1>5 DEF ClientStep

LEMMA HandlerKeepsAnswers ==
  ASSUME IInv, NEW s \in ServerRanks, NEW p \in Ranks, NEW k \in Comms, NEW m \in Message,
         Arrived(k, p, s), Handler(s, p, k, m),
         NEW ch \in Channels, ch[3] \in Clients, net[ch] # <<>>
  PROVE  net'[ch] # <<>>
<1> DEFINE n == Consumed(k, p, s)
<1>0. /\ net \in Networks /\ s \in Ranks /\ ch[3] # s
      /\ <<k, p, s>> \in Channels
  BY RankKinds, ChannelTuple DEF IInv, TypeOK, Networks
<1>1. n \in Networks /\ n[ch] = net[ch]
  BY <1>0, ConsumedNet DEF Consumed, Networks
<1> HIDE DEF n
<1>2. PICK q \in Seq(Message) : q = n[ch] /\ q # <<>>
  BY <1>1 DEF Networks
<1>3. CASE net' = n
  BY <1>1, <1>3
<1>4. CASE \E d \in Ranks, x \in Message : net' = Post(n, k, s, d, x)
  <2>1. PICK d \in Ranks, x \in Message : net' = Post(n, k, s, d, x)
    BY <1>4
  <2>2. net'[ch] = q \/ net'[ch] = Append(q, x)
    BY <1>1, <1>2, <2>1 DEF Post, Networks
  <2> QED BY <1>2, <2>2, AsksAppend
<1>5. CASE \E dests \in NetworkTargets(k, s), x \in Message : net' = PostAll(n, k, s, dests, x)
  <2>1. PICK dests \in NetworkTargets(k, s), x \in Message : net' = PostAll(n, k, s, dests, x)
    BY <1>5
  <2> DEFINE copies == {y \in DOMAIN dests : dests[y] = ch[3]}
  <2>2. Cardinality(copies) \in Nat
    <3>1. dests \in [1 .. serverNetLoad[s] -> {d \in ServerRanks : ServerComm(d) = k}]
      BY <1>0, <2>1, NetworkTargetsListen
    <3>2. copies \subseteq 1 .. serverNetLoad[s]
      BY <3>1
    <3>3. IsFiniteSet(1 .. serverNetLoad[s])
      <4>1. 1 \in Int /\ serverNetLoad[s] \in Int
        BY LoadIs
      <4> HIDE DEF copies
      <4> QED BY <4>1, FS_Interval
    <3> HIDE DEF copies
    <3> QED BY <3>2, <3>3, FS_Subset, FS_CardinalityType
  <2>3. PICK z \in Nat : z = Cardinality(copies)
    BY <2>2
  <2>4. net'[ch] = q \/ net'[ch] = q \o [j \in 1 .. z |-> x]
    BY <1>2, <2>1, <2>3 DEF PostAll
  <2>5. Len(q \o [j \in 1 .. z |-> x]) = Len(q) + z /\ Len(q) \in Nat /\ Len(q) > 0
    BY <1>2, ConcatCopies, EmptySeq, LenProperties
  <2>6. Len(q \o [j \in 1 .. z |-> x]) # 0
    BY <2>5
  <2>7. q \o [j \in 1 .. z |-> x] # <<>>
    BY <2>6, EmptySeq
  <2> QED BY <1>2, <2>4, <2>7
<1> QED BY <1>3, <1>4, <1>5, HandlerSends DEF n

LEMMA HandlerKeepsRequests ==
  ASSUME IInv, NEW s \in ServerRanks, NEW p \in Ranks, NEW k \in Comms, NEW m \in Message,
         Arrived(k, p, s), m = Head(net[<<k, p, s>>]), Handler(s, p, k, m),
         NEW c \in Clients, ~(IsHP(k) /\ p = c /\ IsRequest(m)), NEW r \in ServerRanks,
         Asks(net[<<"HP", c, r>>])
  PROVE  Asks(net'[<<"HP", c, r>>])
<1>1. PICK h \in Comms : h = "HP" /\ IsHP(h)
  BY DEF Comms, IsHP
<1>2. PICK ch \in Channels : ch = <<h, c, r>>
  BY ChannelTuple, RankKinds
<1>3. PICK q \in Seq(Message) : q = net[ch]
  BY DEF IInv, TypeOK
<1>4. CASE ch = <<k, p, s>>
  <2>1. ~IsRequest(Head(q)) /\ q # <<>>
    BY <1>1, <1>2, <1>3, <1>4 DEF Arrived
  <2>2. net'[ch] = Tail(q)
    BY <1>2, <1>3, <1>4, HandlerTakesOne
  <2>3. Asks(Tail(q))
    BY <1>1, <1>2, <1>3, <2>1, AsksTail
  <2> QED BY <1>1, <1>2, <2>2, <2>3
<1>5. CASE ch # <<k, p, s>>
  <2>1. net'[ch] = net[ch]
    BY <1>2, <1>5, HandlerTakesOne
  <2> QED BY <1>1, <1>2, <2>1
<1> QED BY <1>4, <1>5

LEMMA RequestArrived ==
  ASSUME IInv, NEW s \in ServerRanks, NEW p \in Ranks, NEW k \in Comms, NEW m \in Message,
         Arrived(k, p, s), m = Head(net[<<k, p, s>>]), MsgOK(k, p, s, m), IsRequest(m)
  PROVE  /\ p \in Clients /\ k = "HP" /\ IsHP(k) /\ s \in HPRanks(targetServerID[p])
         /\ TokenCount(p) > 0
<1>1. /\ p \in Clients /\ k = "HP" /\ IsHP(k) /\ s \in HPRanks(targetServerID[p])
      /\ s \in Ranks /\ net \in Networks
  BY RankKinds DEF MsgOK, IsRequest, IsHP, IInv, TypeOK, Networks
<1>2. PICK F : F = TokenFilter(p)
  OBVIOUS
<1>3. m \in F[<<k, p, s>>]
  BY <1>1, <1>2, TakenMessage
<1>4. Cardinality(Pending(net, F)) \in Nat \ {0}
  BY <1>1, <1>3, ArrivedIsCounted
<1> QED BY <1>1, <1>2, <1>4 DEF TokenCount

\* The last reply to the request in a slot: it frees the slot
LastReply(s, p, k, m) == HandleHPAck(s, p, k, m) /\ IsLastReply(Replied(s, m.tag))

Origin(s, t) == continuations[s][t].originClientRank

LEMMA HandlerKeepsSlots ==
  ASSUME IInv, Counts, FewRequests,
         NEW s \in ServerRanks, NEW p \in Ranks, NEW k \in Comms, NEW m \in Message,
         k = ServerComm(s), Arrived(k, p, s), m = Head(net[<<k, p, s>>]),
         MsgOK(k, p, s, m), Handler(s, p, k, m),
         NEW c \in Clients, ~(LastReply(s, p, k, m) /\ c = Origin(s, m.tag)), NEW r \in ServerRanks
  PROVE  HeldFor(r, c) \subseteq HeldFor(r, c)'
<1>0. m.tag \in Slots /\ Replied(s, m.tag) \in Continuation
  <2>1. m.tag \in Slots /\ continuations[s][m.tag] \in Continuation
    BY DEF Message, IInv, TypeOK
  <2> QED BY <2>1 DEF Replied, Continuation
<1> SUFFICES ASSUME NEW t \in Slots, t \notin vector[r], Origin(r, t) = c
             PROVE  t \notin vector'[r] /\ Origin(r, t)' = c
  BY DEF HeldFor, Origin
<1>1. CASE UNCHANGED slotVars
  BY <1>1 DEF slotVars, Origin
<1>2. CASE SpreadHPRequest(s, p, k, m)
  <2>1. p \in Clients /\ s \in HPRanks(targetServerID[p]) /\ TokenCount(p) > 0
    BY <1>2, RequestArrived DEF SpreadHPRequest, IsRequest
  <2>2. PICK tag \in Slots : tag = getFirstOne(vector[s]) /\ tag \in vector[s]
    BY <1>2, <2>1, NextSlotFits DEF SpreadHPRequest
  <2>3. ~(r = s /\ t = tag)
    BY <2>2
  <2>4. vector'[r] \subseteq vector[r]
    BY <1>2, <2>2 DEF SpreadHPRequest, IInv, TypeOK, clearBit
  <2>5. PICK cont \in Continuation : Writes(s, tag, cont)
    <3>1. [replyCount |-> 0, numRepliesNeeded |-> serverNetLoad[s], originClientRank |-> p] \in Continuation
      BY LoadIs DEF Continuation
    <3>2. Writes(s, tag, [replyCount |-> 0, numRepliesNeeded |-> serverNetLoad[s], originClientRank |-> p])
      BY <1>2, <2>2 DEF SpreadHPRequest, Writes
    <3> QED BY <3>1, <3>2
  <2>6. continuations'[r][t] = continuations[r][t]
    BY <2>3, <2>5, ContinuationsAfter
  <2> QED BY <2>4, <2>6 DEF Origin
<1>3. CASE HandleHPAck(s, p, k, m)
  <2>1. Origin(r, t)' = Origin(r, t)
    <3>1. /\ continuations' = [continuations EXCEPT ![s][m.tag] = Replied(s, m.tag)]
          /\ UNCHANGED targetServerID
      BY <1>3 DEF HandleHPAck, clientVars
    <3>2. Replied(s, m.tag).originClientRank = continuations[s][m.tag].originClientRank
      BY <1>0, <3>1, OneMoreReply
    <3>3. PICK cont \in Continuation : cont = Replied(s, m.tag)
      BY <1>0
    <3>4. Writes(s, m.tag, cont)
      BY <3>1, <3>3 DEF Writes
    <3>5. /\ continuations'[s][m.tag] = cont
          /\ r # s \/ t # m.tag => continuations'[r][t] = continuations[r][t]
      BY <1>0, <3>4, ContinuationsAfter
    <3> QED BY <3>2, <3>3, <3>5 DEF Origin
  <2>2. t \notin vector'[r]
    <3>1. CASE ~IsLastReply(Replied(s, m.tag))
      BY <1>3, <3>1 DEF HandleHPAck
    <3>2. CASE IsLastReply(Replied(s, m.tag))
      <4>1. vector' = [vector EXCEPT ![s] = setBit(@, m.tag)]
        BY <1>3, <3>2 DEF HandleHPAck
      <4>2. ~(r = s /\ t = m.tag)
        BY <1>3, <3>2 DEF LastReply
      <4> QED BY <4>1, <4>2 DEF setBit, IInv, TypeOK
    <3> QED BY <3>1, <3>2
  <2> QED BY <2>1, <2>2
<1>4. CASE HandleLPAck(s, p, k, m)
  <2>1. ~IsHP(k)
    BY <1>4 DEF HandleLPAck, MsgOK, IsHP
  <2>2. m.tag \in vector[s]
    BY <1>0, <2>1, UsedSlots
  <2>3. ~(r = s /\ t = m.tag)
    BY <2>2
  <2>4. t \notin vector'[r]
    BY <1>4, <2>3 DEF HandleLPAck, setBit, IInv, TypeOK
  <2>5. PICK cont \in Continuation : Writes(s, m.tag, cont)
    BY <1>0, <1>4 DEF HandleLPAck, Writes
  <2>6. continuations'[r][t] = continuations[r][t]
    BY <1>0, <2>3, <2>5, ContinuationsAfter
  <2> QED BY <2>4, <2>6 DEF Origin
<1> QED BY <1>1, <1>2, <1>3, <1>4 DEF Handler, AnswerHPRequest, AbortOnFullVector, HandleLPRequest,
         HandleServerRequest, HandleSimComplete, slotVars, serverVars

\* A handler leaves the requests alone that it neither receives nor answers
LEMMA HandlerKeeps ==
  ASSUME IInv, Counts, FewRequests,
         NEW s \in ServerRanks, NEW p \in Ranks, NEW k \in Comms, NEW m \in Message,
         k = ServerComm(s), Arrived(k, p, s), m = Head(net[<<k, p, s>>]),
         MsgOK(k, p, s, m), Handler(s, p, k, m),
         NEW c \in Clients, ~(IsHP(k) /\ p = c /\ IsRequest(m)),
         ~(LastReply(s, p, k, m) /\ c = Origin(s, m.tag))
  PROVE  Kept(c)
<1>1. pc'[c] = pc[c]
  BY DEF Handler, AnswerHPRequest, SpreadHPRequest, AbortOnFullVector, HandleLPRequest,
         HandleServerRequest, HandleHPAck, HandleLPAck, HandleSimComplete, clientVars
<1>2. ASSUME NEW r \in ServerRanks
      PROVE  /\ Asks(net[<<"HP", c, r>>]) => Asks(net'[<<"HP", c, r>>])
             /\ net[<<"HP", r, c>>] # <<>> => net'[<<"HP", r, c>>] # <<>>
             /\ HeldFor(r, c) \subseteq HeldFor(r, c)'
  <2>1. PICK h \in Comms : h = "HP"
    BY DEF Comms
  <2>2. PICK ch \in Channels : ch = <<h, r, c>> /\ ch[3] \in Clients
    BY ChannelTuple, RankKinds
  <2>3. net[ch] # <<>> => net'[ch] # <<>>
    BY <2>2, HandlerKeepsAnswers
  <2>4. net[<<"HP", r, c>>] # <<>> => net'[<<"HP", r, c>>] # <<>>
    BY <2>1, <2>2, <2>3
  <2>5. Asks(net[<<"HP", c, r>>]) => Asks(net'[<<"HP", c, r>>])
    BY HandlerKeepsRequests
  <2>6. HeldFor(r, c) \subseteq HeldFor(r, c)'
    BY HandlerKeepsSlots
  <2> QED BY <2>4, <2>5, <2>6
<1> QED BY <1>1, <1>2, KeptIs

-------------------------------------------------------------------------------
(* The service: enough slots                                                 *)

\* No server was chosen by more clients than a thread has slots, nor, when the vector
\* has several words, by more than a word has bits: main checks neither
EnoughSlots ==
  FewRequests /\ \A h \in Servers : Cardinality({c \in Clients : targetServerID[c] = h}) <= NumBits

\* A thread with a request in every slot would hold them for all the clients of its
\* server, but the one whose request arrives
LEMMA SlotForRequest ==
  ASSUME IInv, Counts, EnoughSlots, NEW s \in ServerRanks, NEW p \in Clients,
         s \in HPRanks(targetServerID[p]), TokenCount(p) > 0
  PROVE  getFirstOne(vector[s]) # INVALID_INDEX
<1> SUFFICES ASSUME vector[s] \intersect Slots = {} PROVE FALSE
  BY GetFirstOneInvalidIffFull DEF Counts, VectorInv
<1> DEFINE h == targetServerID[p]
           T == {c \in Clients : targetServerID[c] = h}
           f == [t \in Slots |-> Origin(s, t)]
<1>1. h \in Servers /\ HostOf(s) = h
  BY DEF IInv, TypeOK, HPRanks
<1>2. Cardinality(T) <= NumBits /\ NumBits \in Nat
  BY <1>1, BitVectorAssumption DEF EnoughSlots
<1>3. IsFiniteSet(T \ {p}) /\ Cardinality(T \ {p}) < NumBits
  <2>1. IsFiniteSet(T) /\ p \in T /\ Cardinality(T) \in Nat
    BY FiniteChannels, FS_Subset, FS_CardinalityType
  <2>2. PICK S : S = T
    OBVIOUS
  <2>3. IsFiniteSet(S \ {p}) /\ Cardinality(S \ {p}) = Cardinality(S) - 1
    BY <2>1, <2>2, FS_RemoveElement
  <2> QED BY <1>2, <2>1, <2>2, <2>3
<1>4. ASSUME NEW t \in Slots
      PROVE  f[t] \in T \ {p} /\ <<s, t>> \in HeldAt(f[t])
  <2>1. PICK c \in Clients : c = f[t] /\ s \in HPRanks(targetServerID[c])
    BY UsedSlots DEF Origin
  <2>2. targetServerID[c] = h
    BY <1>1, <2>1 DEF HPRanks
  <2>3. <<s, t>> \in HeldAt(c)
    BY <2>1 DEF HeldAt, Origin
  <2>4. c # p
    BY <2>3, HeldOnce
  <2> QED BY <2>1, <2>2, <2>3, <2>4
<1>5. f \in [Slots -> T \ {p}]
  BY <1>4
<1> HIDE DEF f, T
<1>6. PICK t \in Slots, u \in Slots : t # u /\ f[t] = f[u]
  <2>1. PICK S : S = T \ {p}
    OBVIOUS
  <2>2. IsFiniteSet(Slots) /\ IsFiniteSet(S) /\ Cardinality(S) < Cardinality(Slots) /\ f \in [Slots -> S]
    BY <1>3, <1>5, <2>1, FiniteVector
  <2> QED BY <2>2, FS_PigeonHole
<1>7. f[t] \in Clients /\ <<s, t>> \in HeldAt(f[t]) /\ <<s, u>> \in HeldAt(f[t])
  BY <1>4, <1>6 DEF T
<1>8. <<s, t>> = <<s, u>>
  BY <1>7, HeldOnce
<1> QED BY <1>6, <1>8

\* A thread with a free slot serves fewer clients than it has slots
LEMMA ServesFewer ==
  ASSUME PhaseInv, NEW s \in ServerRanks, NEW tag \in Slots, tag \in vector[s]
  PROVE  Cardinality(Service!ServedBy(s)) < NumBits
<1>1. ASSUME NEW c \in Clients, servicePhase[c] = "serving", serviceThread[c] = s
      PROVE  HeldFor(s, c) # {}
  <2>1. PhaseOf(c)
    BY DEF PhaseInv
  <2>2. Waiting(c)
    BY <1>1, <2>1 DEF PhaseOf, IsIdle
  <2>3. PICK r \in ServerRanks : r \in Submitted(c) \/ r \in Serving(c) \/ r \in Answering(c)
    BY <2>1, <2>2 DEF PhaseOf
  <2>4. r \in Serving(c) /\ r = s
    BY <1>1, <2>1, <2>3 DEF PhaseOf, IsSubmitted, IsServing, IsAnswered
  <2> QED BY <2>4 DEF Serving
<1>2. PICK B : B = Service!ServedBy(s)
  OBVIOUS
<1>3. \A c \in B : c \in Clients /\ HeldFor(s, c) # {}
  BY <1>1, <1>2 DEF Service!ServedBy
<1> DEFINE f == [c \in B |-> CHOOSE t : t \in HeldFor(s, c)]
<1>4. \A c \in B : f[c] \in HeldFor(s, c)
  BY <1>3
<1>5. \A c \in B : f[c] \in Slots \ {tag} /\ Origin(s, f[c]) = c
  BY <1>4 DEF HeldFor, Origin
<1>6. f \in [B -> Slots \ {tag}] /\ \A c, d \in B : f[c] = f[d] => c = d
  BY <1>5
<1> HIDE DEF f
<1>7. IsFiniteSet(Slots) /\ Cardinality(Slots) = NumBits /\ NumBits \in Nat
  BY FiniteVector, BitVectorAssumption
<1>8. PICK S : S = Slots \ {tag}
  OBVIOUS
<1>9. IsFiniteSet(S) /\ Cardinality(S) = NumBits - 1
  BY <1>7, <1>8, FS_RemoveElement
<1>10. f \in Injection(B, S)
  BY <1>6, <1>8, Fun_IsInj
<1>11. Cardinality(B) <= Cardinality(S) /\ IsFiniteSet(B)
  BY <1>9, <1>10, FS_Injection
<1> QED BY <1>2, <1>7, <1>9, <1>11, FS_CardinalityType

-------------------------------------------------------------------------------
(* The service: what a handler is to it                                      *)

\* A request received: Serve, or Answer when there are no other servers to ask
LEMMA RequestService ==
  ASSUME IInv, Counts, EnoughSlots, PhaseInv, PhaseInv',
         NEW s \in ServerRanks, NEW p \in Ranks, NEW k \in Comms, NEW m \in Message,
         k = ServerComm(s), Arrived(k, p, s), m = Head(net[<<k, p, s>>]),
         MsgOK(k, p, s, m), Handler(s, p, k, m), IsRequest(m)
  PROVE  Service!Next
<1>1. /\ p \in Clients /\ k = "HP" /\ IsHP(k) /\ s \in HPRanks(targetServerID[p])
      /\ TokenCount(p) > 0 /\ FewRequests /\ s \in Ranks /\ net \in Networks
  BY RequestArrived, RankKinds DEF IInv, TypeOK, Networks, EnoughSlots
<1>2. PICK ch \in Channels : ch = <<k, p, s>>
  BY <1>1, ChannelTuple
<1>3. s \in Submitted(p)
  <2>1. PICK q \in Seq(Message) : q = net[ch]
    BY <1>1 DEF Networks
  <2>2. q # <<>> /\ IsRequest(Head(q))
    BY <1>2, <2>1 DEF Arrived
  <2>3. Asks(net[ch])
    BY <2>1, <2>2, AsksTail
  <2> QED BY <1>1, <1>2, <2>3, InChannels
<1>4. \A c \in Clients : c # p => Kept(c)
  <2>1. ~LastReply(s, p, k, m)
    BY DEF LastReply, HandleHPAck, IsRequest
  <2> QED BY <1>1, <2>1, HandlerKeeps
<1>5. CASE AnswerHPRequest(s, p, k, m)
  <2>1. PICK x \in Message : net' = Post(Consumed(k, p, s), k, s, p, x)
    <3>1. Msg("HP ACK", 0) \in Message
      BY MsgType, ZeroIsSlot DEF Kinds
    <3> QED BY <1>5, <3>1 DEF AnswerHPRequest
  <2>2. s \in Answering(p)'
    <3>1. PICK back \in Channels : back = <<k, s, p>>
      BY <1>1, ChannelTuple
    <3>2. PICK n \in Networks : n = Consumed(k, p, s)
      BY <1>1, ConsumedNet
    <3>3. net'[back] = Append(n[back], x) /\ n[back] \in Seq(Message)
      BY <2>1, <3>1, <3>2 DEF Post, Networks
    <3>4. net'[back] # <<>>
      BY <3>3, AsksAppend
    <3> QED BY <1>1, <3>1, <3>4, InChannels
  <2>3. Service!Answer(p)
    BY <1>1, <1>3, <1>4, <2>2, IsAnswer
  <2> QED BY <1>1, <2>3 DEF Service!Next, Service!Progress
<1>6. CASE SpreadHPRequest(s, p, k, m)
  <2>1. PICK tag \in Slots : tag = getFirstOne(vector[s]) /\ tag \in vector[s]
    BY <1>1, <1>6, NextSlotFits DEF SpreadHPRequest
  <2>2. tag \in HeldFor(s, p)'
    <3>1. tag \notin vector'[s]
      BY <1>6, <2>1 DEF SpreadHPRequest, IInv, TypeOK, clearBit
    <3>2. PICK cont \in Continuation : Writes(s, tag, cont) /\ cont.originClientRank = p
      <4>1. PICK cont \in Continuation :
              cont = [replyCount |-> 0, numRepliesNeeded |-> serverNetLoad[s], originClientRank |-> p]
        BY LoadIs DEF Continuation
      <4>2. Writes(s, tag, cont)
        BY <1>6, <2>1, <4>1 DEF SpreadHPRequest, Writes
      <4> QED BY <4>1, <4>2
    <3>3. continuations'[s][tag].originClientRank = p
      BY <3>2, ContinuationsAfter
    <3> QED BY <3>1, <3>3 DEF HeldFor
  <2>3. s \in Serving(p)'
    BY <2>2 DEF Serving
  <2>4. Cardinality(Service!ServedBy(s)) < NumBits
    BY <2>1, ServesFewer
  <2>5. Service!Serve(p)
    BY <1>1, <1>3, <1>4, <2>3, <2>4, IsServe
  <2> QED BY <1>1, <2>5 DEF Service!Next, Service!Progress
<1>7. ~AbortOnFullVector(s, p, k, m)
  BY <1>1, SlotForRequest DEF AbortOnFullVector
<1> QED BY <1>5, <1>6, <1>7 DEF Handler, HandleLPRequest, HandleServerRequest, HandleHPAck,
         HandleLPAck, HandleSimComplete, IsRequest

\* The last reply to a server request: Answer
LEMMA ReplyService ==
  ASSUME IInv, Counts, EnoughSlots, PhaseInv, PhaseInv',
         NEW s \in ServerRanks, NEW p \in Ranks, NEW k \in Comms, NEW m \in Message,
         k = ServerComm(s), Arrived(k, p, s), m = Head(net[<<k, p, s>>]),
         MsgOK(k, p, s, m), LastReply(s, p, k, m)
  PROVE  Service!Next
<1>0. /\ m.kind = "HP ACK" /\ k = "HP" /\ HandleHPAck(s, p, k, m) /\ Handler(s, p, k, m)
  BY DEF LastReply, HandleHPAck, Handler, MsgOK
<1>1. /\ IsHP(k) /\ IsAck(m) /\ ~IsRequest(m) /\ ~IsServerRequest(m) /\ s \in Ranks
      /\ p \in ServerRanks /\ s \notin Clients /\ net \in Networks /\ m.tag \in Slots
  BY <1>0, RankKinds DEF MsgOK, Listening, IsRequest, IsAck, IsServerRequest, IsHP, IInv, TypeOK,
     Networks, Message
<1>2. PICK b \in Clients : b = Origin(s, m.tag)
  BY <1>0, <1>1 DEF MsgOK, SlotOwned, Origin
<1>3. s \in Serving(b)
  <2>1. PICK t \in Slots : t = m.tag
    BY <1>1
  <2>2. PICK F : F = ReplyFilter(s, t)
    OBVIOUS
  <2>3. m \in F[<<k, p, s>>]
    <3>1. m \in ReplyFilter(s, t)[<<k, p, s>>]
      BY <1>1, <2>1, TakenMessage
    <3> QED BY <2>2, <3>1
  <2>4. Cardinality(Pending(net, F)) \in Nat \ {0}
    BY <1>1, <2>3, ArrivedIsCounted
  <2>5. SlotInv(s, m.tag) /\ ReplyCount(s, m.tag) # 0
    BY <1>1, <2>1, <2>2, <2>4 DEF Counts, SlotsInv, ReplyCount
  <2>6. m.tag \in HeldFor(s, b)
    BY <1>1, <1>2, <2>1, <2>5 DEF SlotInv, HeldFor, Origin
  <2> QED BY <2>6 DEF Serving
<1>4. s \in Answering(b)'
  <2>1. Replied(s, m.tag).originClientRank = b
    <3>1. continuations' = [continuations EXCEPT ![s][m.tag] = Replied(s, m.tag)]
          /\ UNCHANGED targetServerID
      BY <1>0 DEF HandleHPAck, clientVars
    <3> QED BY <1>1, <1>2, <3>1, OneMoreReply DEF Origin
  <2>2. PICK x \in Message : net' = Post(Consumed(k, p, s), k, s, b, x)
    <3>1. Msg("HP ACK", 0) \in Message
      BY MsgType, ZeroIsSlot DEF Kinds
    <3>2. net' = Post(Consumed(k, p, s), k, s, b, Msg("HP ACK", 0))
      BY <2>1 DEF LastReply, HandleHPAck
    <3> QED BY <3>1, <3>2
  <2>3. PICK back \in Channels : back = <<k, s, b>>
    BY <1>1, ChannelTuple, RankKinds
  <2>4. PICK n \in Networks : n = Consumed(k, p, s)
    BY <1>1, ConsumedNet
  <2>5. net'[back] = Append(n[back], x) /\ n[back] \in Seq(Message)
    BY <2>2, <2>3, <2>4 DEF Post, Networks
  <2>6. net'[back] # <<>>
    BY <2>5, AsksAppend
  <2> QED BY <1>0, <2>3, <2>6, InChannels
<1>5. \A c \in Clients : c # b => Kept(c)
  BY <1>0, <1>1, <1>2, HandlerKeeps DEF EnoughSlots
<1>6. Service!Answer(b)
  BY <1>3, <1>4, <1>5, IsAnswer
<1> QED BY <1>6 DEF Service!Next, Service!Progress

LEMMA ServerService ==
  ASSUME IInv, Counts, EnoughSlots, PhaseInv, PhaseInv', NEW s \in ServerRanks, ServerStep(s)
  PROVE  [Service!Next]_(Service!vars)
<1>1. PICK k \in Comms, p \in Ranks :
        /\ k = ServerComm(s) /\ Arrived(k, p, s) /\ Handler(s, p, k, Head(net[<<k, p, s>>]))
  <2>1. ServerComm(s) \in Comms
    BY DEF ServerComm, Comms
  <2> QED BY <2>1 DEF ServerStep, Handler
<1>2. PICK m \in Message : m = Head(net[<<k, p, s>>]) /\ MsgOK(k, p, s, m)
  BY <1>1, Received, RankKinds
<1>3. CASE IsRequest(m)
  BY <1>1, <1>2, <1>3, RequestService
<1>4. CASE LastReply(s, p, k, m)
  BY <1>1, <1>2, <1>4, ReplyService
<1>5. CASE ~IsRequest(m) /\ ~LastReply(s, p, k, m)
  <2>1. \A c \in Clients : Kept(c)
    BY <1>1, <1>2, <1>5, HandlerKeeps DEF EnoughSlots
  <2>2. UNCHANGED Service!vars
    BY <2>1, ServiceStutters
  <2> QED BY <2>2
<1> QED BY <1>3, <1>4, <1>5

\* With enough slots no step aborts the job
LEMMA NoAbortNext ==
  ASSUME IInv, EnoughSlots, Counts, ~aborted, [Next]_vars
  PROVE  ~aborted'
<1>1. CASE UNCHANGED vars
  BY <1>1 DEF vars
<1>2. ASSUME NEW c \in Clients, ClientStep(c) \/ Signal(c) PROVE aborted' = aborted
  BY <1>2 DEF ClientStep, SendLPReq, SkipLPReq, SendHPReq, SkipHPReq, WaitHPReply, Finish, Signal
<1>3. ASSUME NEW s \in ServerRanks, ServerStep(s) PROVE aborted' = aborted
  <2>1. PICK k \in Comms, p \in Ranks :
          /\ k = ServerComm(s) /\ Arrived(k, p, s) /\ Handler(s, p, k, Head(net[<<k, p, s>>]))
    <3>1. ServerComm(s) \in Comms
      BY DEF ServerComm, Comms
    <3> QED BY <1>3, <3>1 DEF ServerStep, Handler
  <2>2. PICK m \in Message : m = Head(net[<<k, p, s>>]) /\ MsgOK(k, p, s, m)
    BY <2>1, Received, RankKinds
  <2>3. ASSUME AbortOnFullVector(s, p, k, m) PROVE FALSE
    <3>1. p \in Clients /\ s \in HPRanks(targetServerID[p]) /\ TokenCount(p) > 0
      BY <2>1, <2>2, <2>3, RequestArrived DEF AbortOnFullVector, IsRequest
    <3> QED BY <2>3, <3>1, SlotForRequest DEF AbortOnFullVector
  <2> QED BY <2>1, <2>2, <2>3 DEF Handler, AnswerHPRequest, SpreadHPRequest, HandleLPRequest,
         HandleServerRequest, HandleHPAck, HandleLPAck, HandleSimComplete
<1> QED BY <1>1, <1>2, <1>3 DEF Next, Quiescent

\* If no server was chosen by more clients than a thread has slots, no request finds
\* all of them taken, whatever is queued, and MPI never aborts the job
\* (src/server.c:136-142).
THEOREM JobIsNotAborted == Spec => [](EnoughSlots => ~aborted)
<1>1. Init => ~aborted
  BY DEF Init
<1>2. /\ IInv /\ (FewRequests => CountInv) /\ (EnoughSlots => ~aborted) /\ [Next]_vars
      => (EnoughSlots' => ~aborted')
  BY FewRequestsStays, NoAbortNext DEF EnoughSlots, CountInv
<1> QED BY <1>1, <1>2, IInvAlways, CountAlways, PTL DEF Spec

LEMMA ServiceInit ==
  ASSUME IInv, PhaseInv, Init
  PROVE  Service!Init
<1>1. \A c \in Clients : servicePhase[c] = "idle" /\ serviceThread[c] = INVALID_INDEX
  <2> TAKE c \in Clients
  <2>1. ~Waiting(c)
    BY DEF Init, ClientInit, Waiting
  <2> QED BY <2>1 DEF PhaseInv, PhaseOf, IsIdle
<1>2. PICK f, g : f = servicePhase /\ g = serviceThread
  OBVIOUS
<1>3. f = [c \in Clients |-> f[c]] /\ g = [c \in Clients |-> g[c]]
  BY <1>2 DEF servicePhase, serviceThread
<1>4. f = [c \in Clients |-> "idle"] /\ g = [c \in Clients |-> INVALID_INDEX]
  BY <1>1, <1>2, <1>3
<1> QED BY <1>2, <1>4 DEF Service!Init

\* Under the same condition the messages, the slots and the tags implement HPService:
\* every step of a client or a thread submits, serves, answers or collects one
\* request, or does nothing to any.  A request is answered by the thread it was sent
\* to, once, and goes back to the client it came from (src/client.c:143-184,
\* src/server.c:122-150 and 188-216).
THEOREM ServiceIsImplemented == Spec /\ EnoughSlots => Service!Init /\ [][Service!Next]_(Service!vars)
<1> DEFINE G == IInv /\ (FewRequests => CountInv) /\ (EnoughSlots => ~aborted)
<1>1. G /\ EnoughSlots => IInv /\ Counts /\ FewRequests /\ ~aborted /\ PhaseInv
  BY PhaseHolds DEF CountInv, EnoughSlots
<1>2. G /\ EnoughSlots /\ Init => Service!Init
  BY <1>1, ServiceInit
<1>3. EnoughSlots /\ [Next]_vars => EnoughSlots'
  BY FewRequestsStays DEF EnoughSlots
<1>4. G' /\ EnoughSlots' => PhaseInv'
  BY <1>1, PTL
<1>5. G /\ G' /\ EnoughSlots /\ EnoughSlots' /\ [Next]_vars => [Service!Next]_(Service!vars)
  <2> SUFFICES ASSUME G, EnoughSlots, PhaseInv', [Next]_vars PROVE [Service!Next]_(Service!vars)
    BY <1>4
  <2>0. IInv /\ Counts /\ PhaseInv
    BY <1>1
  <2> HIDE DEF G
  <2>1. ASSUME NEW c \in Clients, ClientStep(c) \/ Signal(c) PROVE [Service!Next]_(Service!vars)
    BY <2>0, <2>1, ClientService
  <2>2. ASSUME NEW s \in ServerRanks, ServerStep(s) PROVE [Service!Next]_(Service!vars)
    BY <2>0, <2>2, ServerService
  <2>3. CASE UNCHANGED vars
    <3>1. UNCHANGED <<net, pc, vector, continuations>>
      BY <2>3 DEF vars, clientVars, serverVars
    <3>2. \A s \in ServerRanks, c \in Clients : HeldFor(s, c)' = HeldFor(s, c)
      BY <3>1 DEF HeldFor
    <3>3. ASSUME NEW c \in Clients PROVE Kept(c)
      BY <3>1, <3>2, KeptIs
    <3>4. UNCHANGED Service!vars
      BY <2>0, <3>3, ServiceStutters
    <3> QED BY <3>4
  <2> QED BY <2>1, <2>2, <2>3 DEF Next, Quiescent
<1>6. Spec => []G
  BY IInvAlways, CountAlways, JobIsNotAborted, PTL
<1> HIDE DEF G
<1> QED BY <1>2, <1>3, <1>5, <1>6, PTL DEF Spec
==============================================================================
