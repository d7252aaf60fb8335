----------------------------- MODULE BlockingSend -----------------------------
(***************************************************************************)
(* The sends of clients and server threads one by one, when MPI_Send may   *)
(* block: MPI keeps at most Capacity messages of a sender for a receiver   *)
(* that has not asked for them, and a further send waits until it does.  A *)
(* server thread that waits in a send receives nothing, so threads can end *)
(* up waiting for each other (src/client.c:242-257, src/server.c:104-222,  *)
(* 241-245, 284-302).  QosSim has the same handlers with sends that never  *)
(* wait, and the slots, counters and logs left out here.                   *)
(*                                                                         *)
(* SIM COMPLETE (src/client.c:96-111) is left out too: a client sends it   *)
(* when it waits for nothing any more, through channels of its own, and a  *)
(* thread that takes it sends nothing, so nobody's send or reply depends   *)
(* on it.                                                                  *)
(***************************************************************************)
EXTENDS Topology, Sequences, FiniteSetsExt

CONSTANTS serverNetLoad,
          Capacity,             \* what MPI buffers for one sender at one receiver
          HPReqs, LPReqs        \* bounds: the requests of each client

ASSUME BlockingAssumption ==
  /\ numProcs % procsPerHost = 0 /\ numHosts >= 2 /\ coresForHPThreads > 0
  /\ {serverNetLoad, Capacity, HPReqs, LPReqs} \subseteq Nat

VARIABLES net,       \* net[<<s, d>>]: the messages MPI holds, oldest first
          outbox,    \* the sends a process still has to do before it goes on
          waiting,   \* the clients in client_waitHPReply
          replies,   \* replies[s][c]: what thread s still needs for the request of c
          hpLeft, lpLeft

vars == <<net, outbox, waiting, replies, hpLeft, lpLeft>>

\* client says whose request a message is for, in place of the slot in its tag
Send(kind, to, client) == [kind |-> kind, to |-> to, client |-> client]

Threads(d, h) == IF IsHPServer(d) THEN HPRanks(h) ELSE LPRanks(h)

Init ==
  /\ net = [ch \in Ranks \X Ranks |-> <<>>]
  /\ outbox = [p \in Ranks |-> <<>>]
  /\ waiting = {}
  /\ replies = [s \in ServerRanks |-> [c \in Clients |-> 0]]
  /\ hpLeft = [c \in Clients |-> HPReqs] /\ lpLeft = [c \in Clients |-> LPReqs]

\* A posted receive takes a message that MPI has no room for
Receiving(p) == outbox[p] = <<>> /\ (IsServer(p) \/ p \in waiting)
Accepted(s, d) ==
  \/ Len(net[<<s, d>>]) < Capacity
  \/ Receiving(d) /\ \A q \in Ranks : net[<<q, d>>] = <<>>

\* MPI_Send returns
SendReturns(p) ==
  /\ outbox[p] # <<>>
  /\ LET m == Head(outbox[p]) IN
       /\ Accepted(p, m.to)
       /\ net' = [net EXCEPT ![<<p, m.to>>] = Append(@, m)]
  /\ outbox' = [outbox EXCEPT ![p] = Tail(@)]
  /\ UNCHANGED <<waiting, replies, hpLeft, lpLeft>>

Idle(c) == outbox[c] = <<>> /\ c \notin waiting

ClientLPReq(c) ==
  /\ Idle(c) /\ lpLeft[c] > 0
  /\ \E h \in Hosts \ {HostOf(c)} : \E d \in LPRanks(h) :
       outbox' = [outbox EXCEPT ![c] = <<Send("REQUEST", d, c)>>]
  /\ lpLeft' = [lpLeft EXCEPT ![c] = @ - 1]
  /\ UNCHANGED <<net, waiting, replies, hpLeft>>

ClientHPReq(c) ==
  /\ Idle(c) /\ hpLeft[c] > 0
  /\ \E h \in Hosts \ {HostOf(c)} : \E d \in HPRanks(h) :
       outbox' = [outbox EXCEPT ![c] = <<Send("REQUEST", d, c)>>]
  /\ hpLeft' = [hpLeft EXCEPT ![c] = @ - 1]
  /\ waiting' = waiting \union {c}
  /\ UNCHANGED <<net, replies, lpLeft>>

ClientReply(c, s) ==
  /\ c \in waiting /\ outbox[c] = <<>> /\ net[<<s, c>>] # <<>>
  /\ net' = [net EXCEPT ![<<s, c>>] = Tail(@)]
  /\ waiting' = waiting \ {c}
  /\ UNCHANGED <<outbox, replies, hpLeft, lpLeft>>

\* Mutant of NetworkRequests: one request too many
NetworkRequestsPlusOne(d, c) ==
  {[i \in 1 .. serverNetLoad + 1 |-> Send("SERVER REQUEST", to[i], c)] :
     to \in [1 .. serverNetLoad + 1 -> UNION {Threads(d, h) : h \in Hosts \ {HostOf(d)}}]}

\* serverCreateNetworkRequest
NetworkRequests(d, c) ==
  {[i \in 1 .. serverNetLoad |-> Send("SERVER REQUEST", to[i], c)] :
     to \in [1 .. serverNetLoad -> UNION {Threads(d, h) : h \in Hosts \ {HostOf(d)}}]}

\* A thread takes a message from s; it does nothing else until its sends are done
ServerRequest(d, s, m) ==
  /\ m.kind = "REQUEST"
  /\ \E sends \in NetworkRequests(d, m.client) :
       outbox' = [outbox EXCEPT ![d] =
                    IF sends = <<>> /\ IsHPServer(d) THEN <<Send("ACK", s, m.client)>> ELSE sends]
  /\ replies' = [replies EXCEPT ![d][m.client] = IF IsHPServer(d) THEN serverNetLoad ELSE @]

ServerServerRequest(d, s, m) ==
  /\ m.kind = "SERVER REQUEST"
  /\ outbox' = [outbox EXCEPT ![d] = <<Send("ACK", s, m.client)>>]
  /\ UNCHANGED replies

\* Mutant of ServerAck: the count is compared before it is brought up to date
ServerAckStale(d, m) ==
  /\ m.kind = "ACK"
  /\ IF IsLPServer(d) THEN UNCHANGED <<outbox, replies>>
     ELSE /\ replies' = [replies EXCEPT ![d][m.client] = @ - 1]
          /\ outbox' = IF replies[d][m.client] = 0
                       THEN [outbox EXCEPT ![d] = <<Send("ACK", m.client, m.client)>>] ELSE outbox

\* Only high priority requests are answered
ServerAck(d, m) ==
  /\ m.kind = "ACK"
  /\ IF IsLPServer(d) THEN UNCHANGED <<outbox, replies>>
     ELSE /\ replies' = [replies EXCEPT ![d][m.client] = @ - 1]
          /\ outbox' = IF replies'[d][m.client] = 0
                       THEN [outbox EXCEPT ![d] = <<Send("ACK", m.client, m.client)>>] ELSE outbox

ServerReceive(d, s) ==
  /\ outbox[d] = <<>> /\ net[<<s, d>>] # <<>>
  /\ net' = [net EXCEPT ![<<s, d>>] = Tail(@)]
  /\ LET m == Head(net[<<s, d>>]) IN
       ServerRequest(d, s, m) \/ ServerServerRequest(d, s, m) \/ ServerAck(d, m)
  /\ UNCHANGED <<waiting, hpLeft, lpLeft>>

Next == \/ \E p \in Ranks : SendReturns(p)
        \/ \E c \in Clients : ClientLPReq(c) \/ ClientHPReq(c)
        \/ \E c \in Clients, s \in ServerRanks : ClientReply(c, s)
        \/ \E d \in ServerRanks, s \in Ranks : ServerReceive(d, s)

\* A send that can return does, and a thread that waits for messages gets them
Spec == /\ Init /\ [][Next]_vars
        /\ \A p \in Ranks : WF_vars(SendReturns(p))
        /\ \A c \in Clients : WF_vars(\E s \in ServerRanks : ClientReply(c, s))
        /\ \A d \in ServerRanks : WF_vars(\E s \in Ranks : ServerReceive(d, s))

(***************************************************************************)
(* Properties                                                              *)
(***************************************************************************)

Blocked(p) == outbox[p] # <<>> /\ ~Accepted(p, Head(outbox[p]).to)

\* The threads of S wait in MPI_Send for each other: each for one that is in a send too
Circle(S) == S # {} /\ \A p \in S : Blocked(p) /\ Head(outbox[p]).to \in S

HPThreads == {s \in ServerRanks : IsHPServer(s)}

\* No high priority threads wait in MPI_Send for each other (src/server.c:241-245), although
\* they wait while they handle requests (src/server.c:143, 185, 210): what is under way
\* between them is bounded, since a client waits for its reply.  Low priority threads may:
\* a client does not wait for them (src/client.c:127-141), see ClientSendsReturn.
NoCircularWait == \A S \in SUBSET HPThreads : ~Circle(S)

\* Every high priority request is answered although sends may have to wait, and although
\* low priority threads may wait for each other for ever
EveryWaitEnds == \A c \in Clients : c \in waiting ~> c \notin waiting

\* "Using non-blocking send", says the comment over the MPI_Send of a request
\* (src/client.c:253-255).  In the least: a client does not wait in it for ever.
ClientSendsReturn == \A c \in Clients : outbox[c] # <<>> ~> outbox[c] = <<>>
==============================================================================
