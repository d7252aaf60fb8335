-------------------------- MODULE ServerChoiceProofs --------------------------
(***************************************************************************)
(* The theorems about the maps and what is chosen from them, for any       *)
(* number of hosts, clients and server threads, all seeds and any number   *)
(* of requests.                                                            *)
(*                                                                         *)
(* First, configMaps writes inside its arrays and builds the layout of     *)
(* Topology.  Then, every request for another server goes to a process     *)
(* that listens for it: the choice rests on the maps, which hold the ranks *)
(* of each server once the loop has ended, and on the generator, whose     *)
(* values are indices only as long as they are numbers.  The many draws of *)
(* the memory load are a recursive function: that it is defined, and what  *)
(* its values are, is shown by induction, which the library offers as the  *)
(* existence of a least element of a set of numbers.                       *)
(***************************************************************************)
EXTENDS ServerChoice, WellFoundedInduction, TLAPS

-------------------------------------------------------------------------------
(* Arithmetic                                                                *)

LEMMA DivRem ==
  ASSUME NEW a \in Nat, NEW b \in Nat \ {0}
  PROVE  a \div b \in Nat /\ a % b \in 0 .. b - 1 /\ a = (a \div b) * b + (a % b)
  BY SMT

\* Blocks of b numbers do not overlap: those of an earlier block end before a later
\* one begins.
LEMMA BlocksApart ==
  ASSUME NEW p \in Nat, NEW q \in Nat, NEW b \in Nat, p < q
  PROVE  p * b \in Nat /\ q * b \in Nat /\ p * b + b <= q * b
<1>1. (p + 1) * b <= q * b BY SMT
<1>2. (p + 1) * b = p * b + b BY SMT
<1>3. p * b \in Nat /\ q * b \in Nat BY SMT
<1>4. QED BY <1>1, <1>2, <1>3

\* Block and place in it determine quotient and remainder.
LEMMA DivUnique ==
  ASSUME NEW q \in Nat, NEW b \in Nat \ {0}, NEW o \in 0 .. b - 1
  PROVE  q * b + o \in Nat /\ (q * b + o) \div b = q /\ (q * b + o) % b = o
<1> DEFINE a == q * b + o
           k == a \div b
           m == a % b
<1>1. q * b \in Nat BY SMT
<1>2. a \in Nat BY <1>1
<1>3. k \in Nat /\ m \in 0 .. b - 1 /\ a = k * b + m BY <1>2, DivRem
<1>4. k = q
  <2>1. CASE k < q
    <3>1. k * b \in Nat /\ k * b + b <= q * b BY <1>3, <2>1, BlocksApart
    <3>2. QED BY <1>1, <1>3, <3>1
  <2>2. CASE q < k
    <3>1. k * b \in Nat /\ q * b + b <= k * b BY <1>3, <2>2, BlocksApart
    <3>2. QED BY <1>1, <1>3, <3>1
  <2>3. QED BY <1>3, <2>1, <2>2
<1>5. m = o BY <1>1, <1>3, <1>4
<1>6. QED BY <1>2, <1>4, <1>5

-------------------------------------------------------------------------------
(* What the arrays hold                                                      *)

\* n, cut off at 0 and at max
Clamp(n, max) == IF n < 0 THEN 0 ELSE IF n > max THEN max ELSE n

\* len ranks from base on
From(base, len) == [i \in 1 .. len |-> base + i - 1]

FirstHP(h) == h * T!procsPerHost + clientThreadsPerHost
FirstLP(h) == FirstHP(h) + coresForHPThreads
numLPThreads == serverThreadsPerHost - coresForHPThreads

\* The threads of host h below rank r
HPBelow(h, r) == From(FirstHP(h), Clamp(r - FirstHP(h), coresForHPThreads))
LPBelow(h, r) == From(FirstLP(h), Clamp(r - FirstLP(h), numLPThreads))

\* The rank of client c
RankOf(c) == (c \div clientThreadsPerHost) * T!procsPerHost + (c % clientThreadsPerHost)

Entry(r) == [hostID |-> T!HostOf(r),
             isClient |-> T!IsClient(r),
             clientID |-> IF T!IsClient(r) THEN T!ClientID(r) ELSE INVALID_INDEX,
             isServer |-> T!IsServer(r),
             serverID |-> IF T!IsServer(r) THEN T!HostOf(r) ELSE INVALID_INDEX]

ArgsOK ==
  /\ clientThreadsPerHost \in Nat \ {0}
  /\ serverThreadsPerHost \in Nat \ {0}
  /\ coresForHPThreads \in 0 .. serverThreadsPerHost - 1
  /\ T!numHosts \in Nat \ {0}
  /\ numProcs = T!numHosts * T!procsPerHost

LoopOK ==
  /\ rank \in 0 .. numProcs
  /\ hostID = IF rank = 0 THEN 0 ELSE T!HostOf(rank - 1)

RankMapOK ==
  rankMap = [r \in T!Ranks |-> IF r < rank THEN Entry(r) ELSE UnsetRank]

ClientMapOK ==
  clientMap = [c \in 0 .. numClients - 1 |->
                 IF RankOf(c) < rank THEN [hostID |-> c \div clientThreadsPerHost, ranks |-> <<RankOf(c)>>]
                 ELSE EmptyClient]

ServerMapOK ==
  serverMap = [h \in T!Servers |-> [hostID  |-> IF FirstHP(h) < rank THEN h ELSE INVALID_INDEX,
                                    HPranks |-> HPBelow(h, rank),
                                    LPranks |-> LPBelow(h, rank)]]

\* Inductive: after each turn the arrays hold exactly the ranks below the next one.
MapInv == ArgsOK /\ LoopOK /\ RankMapOK /\ ClientMapOK /\ ServerMapOK

-------------------------------------------------------------------------------
LEMMA AppendFrom ==
  ASSUME NEW base \in Int, NEW len \in Nat
  PROVE  Append(From(base, len), base + len) = From(base, len + 1)
  BY DEF From

LEMMA FromLen ==
  ASSUME NEW base \in Int, NEW len \in Nat
  PROVE  Len(From(base, len)) = len /\ From(base, len) \in Seq(Int)
  BY DEF From

LEMMA HostsFacts ==
  ASSUME ArgsOK
  PROVE  /\ T!procsPerHost \in Nat \ {0}
         /\ T!procsPerHost = clientThreadsPerHost + serverThreadsPerHost
         /\ numProcs \in Nat
         /\ numLPThreads \in Nat \ {0}
<1>1. T!procsPerHost = clientThreadsPerHost + serverThreadsPerHost BY DEF T!procsPerHost
<1>2. T!procsPerHost \in Nat \ {0} BY <1>1 DEF ArgsOK
<1>3. numProcs \in Nat BY <1>2, SMT DEF ArgsOK
<1>4. QED BY <1>1, <1>2, <1>3 DEF ArgsOK, numLPThreads

\* A rank is the place of its offset on its host, which is one of the job.
LEMMA RankPlace ==
  ASSUME ArgsOK, NEW r \in T!Ranks
  PROVE  /\ T!HostOf(r) \in T!Servers
         /\ T!hostOffset(r) \in 0 .. T!procsPerHost - 1
         /\ T!HostOf(r) * T!procsPerHost \in Nat
         /\ r = T!HostOf(r) * T!procsPerHost + T!hostOffset(r)
<1> DEFINE P == T!procsPerHost
           q == T!HostOf(r)
<1>1. P \in Nat \ {0} /\ numProcs \in Nat BY HostsFacts
<1>2. r \in Nat /\ r < numProcs BY <1>1 DEF T!Ranks
<1>3. q \in Nat /\ T!hostOffset(r) \in 0 .. P - 1 /\ r = q * P + T!hostOffset(r)
  BY <1>1, <1>2, DivRem DEF T!HostOf, T!hostOffset
<1>4. q * P \in Nat BY <1>1, <1>3, SMT
<1>5. q < T!numHosts
  <2>1. SUFFICES ASSUME q >= T!numHosts PROVE FALSE BY <1>3 DEF ArgsOK
  <2>2. q * P >= T!numHosts * P
    BY <1>1, <1>3, <2>1, SMT DEF ArgsOK
  <2>3. QED BY <1>1, <1>2, <1>3, <1>4, <2>2 DEF ArgsOK
<1>6. QED BY <1>3, <1>4, <1>5 DEF ArgsOK, T!Servers, T!Hosts

\* And the place on a host determines the rank.
LEMMA PlaceRank ==
  ASSUME ArgsOK, NEW h \in T!Servers, NEW o \in 0 .. T!procsPerHost - 1
  PROVE  /\ h * T!procsPerHost + o \in T!Ranks
         /\ T!HostOf(h * T!procsPerHost + o) = h
         /\ T!hostOffset(h * T!procsPerHost + o) = o
<1> DEFINE P == T!procsPerHost
<1>1. P \in Nat \ {0} /\ numProcs \in Nat /\ h \in Nat /\ h < T!numHosts
  BY HostsFacts DEF ArgsOK, T!Servers, T!Hosts
<1>2. h * P + o \in Nat /\ (h * P + o) \div P = h /\ (h * P + o) % P = o
  BY <1>1, DivUnique
<1>3. h * P \in Nat /\ h * P + P <= T!numHosts * P BY <1>1, BlocksApart DEF ArgsOK
<1>4. QED BY <1>1, <1>2, <1>3 DEF ArgsOK, T!Ranks, T!HostOf, T!hostOffset
LEMMA ClientPlace ==
  ASSUME ArgsOK, NEW c \in 0 .. numClients - 1
  PROVE  /\ RankOf(c) \in T!Ranks
         /\ T!HostOf(RankOf(c)) = c \div clientThreadsPerHost
         /\ T!hostOffset(RankOf(c)) = c % clientThreadsPerHost
         /\ c % clientThreadsPerHost \in 0 .. clientThreadsPerHost - 1
         /\ c = (c \div clientThreadsPerHost) * clientThreadsPerHost + (c % clientThreadsPerHost)
<1> DEFINE C == clientThreadsPerHost
           k == c \div C
           o == c % C
<1>0. C \in Nat \ {0} /\ T!numHosts \in Nat \ {0} BY DEF ArgsOK
<1>1. numClients \in Nat /\ c \in Nat /\ c < T!numHosts * C
  BY <1>0, SMT DEF numClients
<1>2. k \in Nat /\ o \in 0 .. C - 1 /\ c = k * C + o BY <1>0, <1>1, DivRem
<1>3. k < T!numHosts
  <2>1. SUFFICES ASSUME k >= T!numHosts PROVE FALSE BY <1>0, <1>2
  <2>2. k * C >= T!numHosts * C /\ k * C \in Nat BY <1>0, <1>2, <2>1, SMT
  <2>3. T!numHosts * C \in Nat BY <1>0, SMT
  <2>4. QED BY <1>0, <1>1, <1>2, <2>2, <2>3
<1>4. k \in T!Servers BY <1>0, <1>2, <1>3 DEF T!Servers, T!Hosts
<1>5. o \in 0 .. T!procsPerHost - 1 BY <1>0, <1>2, HostsFacts DEF ArgsOK
<1>6. QED BY <1>2, <1>4, <1>5, PlaceRank DEF RankOf

LEMMA ClientOf ==
  ASSUME ArgsOK, NEW r \in T!Ranks, T!IsClient(r)
  PROVE  /\ T!ClientID(r) \in 0 .. numClients - 1
         /\ RankOf(T!ClientID(r)) = r
         /\ T!ClientID(r) \div clientThreadsPerHost = T!HostOf(r)
<1> DEFINE C == clientThreadsPerHost
           q == T!HostOf(r)
           o == T!hostOffset(r)
<1>0. C \in Nat \ {0} /\ T!numHosts \in Nat \ {0} BY DEF ArgsOK
<1>1. q \in Nat /\ q < T!numHosts /\ o \in 0 .. C - 1 /\ r = q * T!procsPerHost + o
  BY <1>0, RankPlace, HostsFacts DEF T!IsClient, T!Servers, T!Hosts
<1>2. T!ClientID(r) = q * C + o BY DEF T!ClientID
<1>3. q * C + o \in Nat /\ (q * C + o) \div C = q /\ (q * C + o) % C = o
  BY <1>0, <1>1, DivUnique
<1>4. q * C \in Nat /\ q * C + C <= T!numHosts * C /\ T!numHosts * C \in Nat
  BY <1>0, <1>1, BlocksApart
<1>5. T!ClientID(r) \in 0 .. numClients - 1
  BY <1>0, <1>1, <1>2, <1>3, <1>4 DEF numClients
<1>6. QED BY <1>1, <1>2, <1>3, <1>5 DEF RankOf

\* A rank leaves the lists of every other host as they are.
LEMMA OtherHost ==
  ASSUME ArgsOK, NEW r \in T!Ranks, NEW h \in T!Servers, h # T!HostOf(r)
  PROVE  /\ HPBelow(h, r + 1) = HPBelow(h, r)
         /\ LPBelow(h, r + 1) = LPBelow(h, r)
         /\ FirstHP(h) < r + 1 <=> FirstHP(h) < r
<1> DEFINE P == T!procsPerHost
           q == T!HostOf(r)
           C == clientThreadsPerHost
           K == coresForHPThreads
           a == h * P
<1>0. /\ P \in Nat \ {0} /\ P = C + serverThreadsPerHost /\ C \in Nat \ {0}
      /\ serverThreadsPerHost \in Nat /\ K \in Nat /\ K < serverThreadsPerHost
      /\ numLPThreads = serverThreadsPerHost - K
  BY HostsFacts DEF ArgsOK, numLPThreads
<1>1. q \in Nat /\ h \in Nat /\ q * P \in Nat
  BY RankPlace DEF T!Servers, T!Hosts, ArgsOK
<1>2. r >= q * P /\ r < q * P + P /\ r \in Nat
  BY <1>0, <1>1, RankPlace
<1>3. FirstHP(h) = a + C /\ FirstLP(h) = a + C + K BY DEF FirstHP, FirstLP
<1>4. CASE h < q
  <2>1. a \in Nat /\ a + P <= q * P BY <1>0, <1>1, <1>4, BlocksApart
  <2>2. a + P <= r BY <1>1, <1>2, <1>0, <2>1
  <2>3. /\ Clamp(r + 1 - FirstHP(h), K) = K /\ Clamp(r - FirstHP(h), K) = K
        /\ Clamp(r + 1 - FirstLP(h), numLPThreads) = numLPThreads
        /\ Clamp(r - FirstLP(h), numLPThreads) = numLPThreads
    BY <1>0, <1>2, <1>3, <2>1, <2>2 DEF Clamp
  <2>4. FirstHP(h) < r BY <1>0, <1>2, <1>3, <2>1, <2>2
  <2>5. QED BY <1>0, <1>2, <1>3, <2>1, <2>3, <2>4 DEF HPBelow, LPBelow
<1>5. CASE q < h
  <2>1. a \in Nat /\ q * P + P <= a BY <1>0, <1>1, <1>5, BlocksApart
  <2>2. r + 1 <= a BY <1>0, <1>1, <1>2, <2>1
  <2>3. /\ Clamp(r + 1 - FirstHP(h), K) = 0 /\ Clamp(r - FirstHP(h), K) = 0
        /\ Clamp(r + 1 - FirstLP(h), numLPThreads) = 0
        /\ Clamp(r - FirstLP(h), numLPThreads) = 0
    BY <1>0, <1>2, <1>3, <2>1, <2>2 DEF Clamp
  <2>4. ~(FirstHP(h) < r + 1) /\ ~(FirstHP(h) < r) BY <1>0, <1>2, <1>3, <2>1, <2>2
  <2>5. QED BY <1>0, <1>2, <1>3, <2>1, <2>3, <2>4 DEF HPBelow, LPBelow
<1>6. QED BY <1>1, <1>4, <1>5

\* On its own host it ends up at the end of the list of its kind, of which it is the
\* next, and there is room for it.
LEMMA OwnHost ==
  ASSUME ArgsOK, NEW r \in T!Ranks
  PROVE  LET q == T!HostOf(r) IN
         /\ T!IsClient(r) => /\ HPBelow(q, r + 1) = HPBelow(q, r)
                             /\ LPBelow(q, r + 1) = LPBelow(q, r)
                             /\ ~(FirstHP(q) < r) /\ ~(FirstHP(q) < r + 1)
         /\ T!IsHPServer(r) => /\ HPBelow(q, r + 1) = Append(HPBelow(q, r), r)
                               /\ LPBelow(q, r + 1) = LPBelow(q, r)
                               /\ FirstHP(q) < r + 1
                               /\ Len(HPBelow(q, r)) < coresForHPThreads
         /\ T!IsLPServer(r) => /\ LPBelow(q, r + 1) = Append(LPBelow(q, r), r)
                               /\ HPBelow(q, r + 1) = HPBelow(q, r)
                               /\ FirstHP(q) < r + 1
                               /\ Len(LPBelow(q, r)) < numLPThreads
<1> DEFINE P == T!procsPerHost
           q == T!HostOf(r)
           o == T!hostOffset(r)
           C == clientThreadsPerHost
           K == coresForHPThreads
           L == numLPThreads
           a == q * P
<1>0. /\ P = C + K + L /\ C \in Nat \ {0} /\ K \in Nat /\ L \in Nat \ {0}
  BY HostsFacts DEF ArgsOK, numLPThreads
<1>1. a \in Nat /\ o \in 0 .. P - 1 /\ r = a + o BY RankPlace
<1>2. FirstHP(q) = a + C /\ FirstLP(q) = a + C + K BY DEF FirstHP, FirstLP
<1> HIDE DEF a
<1>3. CASE T!IsClient(r)
  <2>1. o < C BY <1>3 DEF T!IsClient
  <2>2. /\ Clamp(r + 1 - FirstHP(q), K) = 0 /\ Clamp(r - FirstHP(q), K) = 0
        /\ Clamp(r + 1 - FirstLP(q), L) = 0 /\ Clamp(r - FirstLP(q), L) = 0
    BY <1>0, <1>1, <1>2, <2>1 DEF Clamp
  <2>3. ~(FirstHP(q) < r + 1) /\ ~(FirstHP(q) < r) BY <1>0, <1>1, <1>2, <2>1
  <2>4. ~T!IsHPServer(r) /\ ~T!IsLPServer(r) BY <1>3 DEF T!IsHPServer, T!IsLPServer, T!IsServer
  <2>5. QED BY <1>0, <1>1, <1>2, <2>2, <2>3, <2>4 DEF HPBelow, LPBelow
<1>4. CASE T!IsHPServer(r)
  <2>1. o >= C /\ o < C + K
    BY <1>0, <1>1, <1>4 DEF T!IsHPServer, T!IsServer, T!IsClient
  <2>2. /\ Clamp(r + 1 - FirstHP(q), K) = o - C + 1 /\ Clamp(r - FirstHP(q), K) = o - C
        /\ Clamp(r + 1 - FirstLP(q), L) = 0 /\ Clamp(r - FirstLP(q), L) = 0
    BY <1>0, <1>1, <1>2, <2>1 DEF Clamp
  <2>3. FirstHP(q) + (o - C) = r /\ FirstHP(q) \in Int /\ o - C \in Nat /\ o - C < K
    BY <1>0, <1>1, <1>2, <2>1
  <2>4. HPBelow(q, r) = From(FirstHP(q), o - C) /\ HPBelow(q, r + 1) = From(FirstHP(q), o - C + 1)
    BY <1>0, <1>1, <1>2, <2>2 DEF HPBelow
  <2>5. HPBelow(q, r + 1) = Append(HPBelow(q, r), r) BY <2>3, <2>4, AppendFrom
  <2>6. Len(HPBelow(q, r)) < K BY <2>3, <2>4, FromLen
  <2>7. LPBelow(q, r + 1) = LPBelow(q, r) BY <1>0, <1>1, <1>2, <2>2 DEF LPBelow
  <2>8. FirstHP(q) < r + 1 BY <1>0, <1>1, <1>2, <2>1
  <2>9. ~T!IsClient(r) /\ ~T!IsLPServer(r) BY <1>4 DEF T!IsHPServer, T!IsLPServer, T!IsServer
  <2>10. QED BY <2>5, <2>6, <2>7, <2>8, <2>9
<1>5. CASE T!IsLPServer(r)
  <2>1. o >= C + K
    BY <1>0, <1>1, <1>5 DEF T!IsLPServer, T!IsHPServer, T!IsServer, T!IsClient
  <2>2. /\ Clamp(r + 1 - FirstHP(q), K) = K /\ Clamp(r - FirstHP(q), K) = K
        /\ Clamp(r + 1 - FirstLP(q), L) = o - (C + K) + 1 /\ Clamp(r - FirstLP(q), L) = o - (C + K)
    BY <1>0, <1>1, <1>2, <2>1 DEF Clamp
  <2>3. /\ FirstLP(q) + (o - (C + K)) = r /\ FirstLP(q) \in Int
        /\ o - (C + K) \in Nat /\ o - (C + K) < L
    BY <1>0, <1>1, <1>2, <2>1
  <2>4. /\ LPBelow(q, r) = From(FirstLP(q), o - (C + K))
        /\ LPBelow(q, r + 1) = From(FirstLP(q), o - (C + K) + 1)
    BY <1>0, <1>1, <1>2, <2>2 DEF LPBelow
  <2>5. LPBelow(q, r + 1) = Append(LPBelow(q, r), r) BY <2>3, <2>4, AppendFrom
  <2>6. Len(LPBelow(q, r)) < L BY <2>3, <2>4, FromLen
  <2>7. HPBelow(q, r + 1) = HPBelow(q, r) BY <1>0, <1>1, <1>2, <2>2 DEF HPBelow
  <2>8. FirstHP(q) < r + 1 BY <1>0, <1>1, <1>2, <2>1
  <2>9. ~T!IsClient(r) /\ ~T!IsHPServer(r) BY <1>5 DEF T!IsLPServer, T!IsServer
  <2>10. QED BY <2>5, <2>6, <2>7, <2>8, <2>9
<1>6. QED BY <1>3, <1>4, <1>5 DEF T!IsLPServer, T!IsServer

-------------------------------------------------------------------------------
(* One turn                                                                  *)

\* hostID, counted up at the first rank of each host, is the host of the rank.
LEMMA TurnPlace ==
  ASSUME ArgsOK, LoopOK, rank < numProcs
  PROVE  /\ rank \in T!Ranks /\ hostOffset = T!hostOffset(rank) /\ thisHost = T!HostOf(rank)
<1> DEFINE P == T!procsPerHost
           q == T!HostOf(rank)
           o == T!hostOffset(rank)
<1>0. P \in Nat \ {0} /\ numProcs \in Nat /\ rank \in Nat /\ rank < numProcs
  BY HostsFacts DEF LoopOK
<1>1. rank \in T!Ranks BY <1>0 DEF T!Ranks
<1>2. hostOffset = o BY DEF hostOffset, T!hostOffset
<1>3. /\ q \in T!Servers /\ q \in Nat /\ q < T!numHosts /\ o \in 0 .. P - 1
      /\ q * P \in Nat /\ rank = q * P + o
  BY <1>1, RankPlace DEF T!Servers, T!Hosts, ArgsOK
<1>4. CASE rank = 0
  <2>1. thisHost = 0 BY <1>0, <1>4 DEF thisHost, LoopOK
  <2>2. q = 0
    <3>1. SUFFICES ASSUME q >= 1 PROVE FALSE BY <1>3
    <3>2. 0 * P + P <= q * P /\ 0 * P \in Nat BY <1>0, <1>3, <3>1, BlocksApart
    <3>3. QED BY <1>0, <1>3, <1>4, <3>2
  <2>3. QED BY <1>1, <1>2, <2>1, <2>2
<1>5. CASE rank # 0 /\ o # 0
  <2>1. rank - 1 = q * P + (o - 1) /\ o - 1 \in 0 .. P - 1 BY <1>0, <1>3, <1>5
  <2>2. T!HostOf(rank - 1) = q BY <1>3, <2>1, PlaceRank
  <2>3. QED BY <1>1, <1>2, <1>5, <2>2 DEF thisHost, LoopOK
<1>6. CASE rank # 0 /\ o = 0
  <2>1. q # 0 BY <1>0, <1>3, <1>6, SMT
  <2>2. q - 1 \in T!Servers /\ q - 1 \in Nat BY <1>3, <2>1 DEF T!Servers, T!Hosts, ArgsOK
  <2>3. q * P = (q - 1) * P + P BY <1>0, <1>3, SMT
  <2>4. (q - 1) * P \in Nat BY <1>0, <2>2, SMT
  <2>5. rank - 1 = (q - 1) * P + (P - 1) /\ P - 1 \in 0 .. P - 1 /\ rank >= P
    BY <1>0, <1>3, <1>6, <2>3, <2>4
  <2>6. T!HostOf(rank - 1) = q - 1 BY <2>2, <2>5, PlaceRank
  <2>7. hostID = q - 1 BY <1>6, <2>6 DEF LoopOK
  <2>8. thisHost = q BY <1>2, <1>3, <1>6, <2>5, <2>7 DEF thisHost
  <2>9. QED BY <1>1, <1>2, <2>8
<1>7. QED BY <1>4, <1>5, <1>6

\* What the turn decides is what Topology says of the rank.
LEMMA TurnDecides ==
  ASSUME ArgsOK, LoopOK, rank < numProcs
  PROVE  /\ isClient <=> T!IsClient(rank)
         /\ isServer <=> T!IsServer(rank)
         /\ isHPServer <=> T!IsHPServer(rank)
         /\ isLPServer <=> T!IsLPServer(rank)
         /\ serverID = T!HostOf(rank)
         /\ isClient => clientID = T!ClientID(rank)
<1>1. rank \in T!Ranks /\ hostOffset = T!hostOffset(rank) /\ thisHost = T!HostOf(rank)
  BY TurnPlace
<1>2. isClient <=> T!IsClient(rank) BY <1>1 DEF isClient, T!IsClient
<1>3. isServer <=> T!IsServer(rank) BY <1>2 DEF isServer, T!IsServer
<1>4. isHPServer <=> T!IsHPServer(rank) BY <1>1, <1>3 DEF isHPServer, T!IsHPServer
<1>5. isLPServer <=> T!IsLPServer(rank) BY <1>3, <1>4 DEF isLPServer, T!IsLPServer
<1>6. serverID = T!HostOf(rank) BY <1>1 DEF serverID
<1>7. ASSUME isClient PROVE clientID = T!ClientID(rank)
  <2> DEFINE C == clientThreadsPerHost
             o == hostOffset
  <2>1. C \in Nat \ {0} /\ o \in 0 .. C - 1
    BY <1>1, <1>7, RankPlace, HostsFacts DEF isClient, ArgsOK
  <2>2. o % C = o
    <3>1. 0 * C + o = o BY <2>1, SMT
    <3>2. (0 * C + o) % C = o BY <2>1, DivUnique
    <3>3. QED BY <3>1, <3>2
  <2>3. QED BY <1>1, <2>2 DEF clientID, T!ClientID
<1>8. QED BY <1>2, <1>3, <1>4, <1>5, <1>6, <1>7

LEMMA SameArgs ==
  ASSUME UNCHANGED args
  PROVE  /\ T!procsPerHost' = T!procsPerHost /\ T!numHosts' = T!numHosts
         /\ T!Ranks' = T!Ranks /\ T!Servers' = T!Servers /\ numClients' = numClients
         /\ numLPThreads' = numLPThreads
         /\ ArgsOK => ArgsOK'
         /\ \A r : Entry(r)' = Entry(r)
         /\ \A c : RankOf(c)' = RankOf(c)
         /\ \A h : FirstHP(h)' = FirstHP(h) /\ FirstLP(h)' = FirstLP(h)
<1>1. T!procsPerHost' = T!procsPerHost BY DEF T!procsPerHost, args
<1>2. T!numHosts' = T!numHosts BY <1>1 DEF T!numHosts, args
<1>3. T!Ranks' = T!Ranks BY DEF T!Ranks, args
<1>4. T!Servers' = T!Servers BY <1>2 DEF T!Servers, T!Hosts
<1>5. numClients' = numClients BY <1>2 DEF numClients, args
<1>6. numLPThreads' = numLPThreads BY DEF numLPThreads, args
<1>7. ArgsOK => ArgsOK' BY <1>1, <1>2 DEF ArgsOK, args
<1>8. \A r : Entry(r)' = Entry(r)
  BY <1>1 DEF Entry, T!HostOf, T!IsClient, T!IsServer, T!ClientID, T!hostOffset, args
<1>9. \A c : RankOf(c)' = RankOf(c) BY <1>1 DEF RankOf, args
<1>10. \A h : FirstHP(h)' = FirstHP(h) BY <1>1 DEF FirstHP, args
<1>11. \A h : FirstLP(h)' = FirstLP(h) BY <1>10 DEF FirstLP, args
<1>12. QED BY <1>1, <1>2, <1>3, <1>4, <1>5, <1>6, <1>7, <1>8, <1>9, <1>10, <1>11

LEMMA TurnRankMap ==
  ASSUME ArgsOK, LoopOK, RankMapOK, ConfigureRank
  PROVE  RankMapOK'
<1>1. rank < numProcs /\ rank' = rank + 1 /\ UNCHANGED args /\ SetRankMap
  BY DEF ConfigureRank
<1>2. rank \in T!Ranks /\ thisHost = T!HostOf(rank) BY <1>1, TurnPlace
<1>3. /\ isClient <=> T!IsClient(rank)
      /\ isServer <=> T!IsServer(rank)
      /\ serverID = T!HostOf(rank)
      /\ isClient => clientID = T!ClientID(rank)
  BY <1>1, TurnDecides
<1>4. T!Ranks' = T!Ranks /\ \A r : Entry(r)' = Entry(r) BY <1>1, SameArgs
<1>5. isClient \in BOOLEAN /\ isServer \in BOOLEAN
      /\ T!IsClient(rank) \in BOOLEAN /\ T!IsServer(rank) \in BOOLEAN
  BY DEF isClient, isServer, T!IsClient, T!IsServer
<1>6. rankMap' = [rankMap EXCEPT ![rank] = Entry(rank)]
  <2>1. isClient = T!IsClient(rank) /\ isServer = T!IsServer(rank) BY <1>3, <1>5
  <2>2. (IF isClient THEN clientID ELSE INVALID_INDEX)
          = (IF T!IsClient(rank) THEN T!ClientID(rank) ELSE INVALID_INDEX)
    BY <1>3, <2>1
  <2>3. (IF isServer THEN serverID ELSE INVALID_INDEX)
          = (IF T!IsServer(rank) THEN T!HostOf(rank) ELSE INVALID_INDEX)
    BY <1>3, <2>1
  <2>4. QED BY <1>1, <1>2, <2>1, <2>2, <2>3 DEF SetRankMap, Entry
<1>7. \A r \in T!Ranks : r < rank + 1 <=> r < rank \/ r = rank
  BY <1>2, HostsFacts DEF T!Ranks
<1>8. rankMap' = [r \in T!Ranks |-> IF r < rank + 1 THEN Entry(r) ELSE UnsetRank]
  BY <1>2, <1>6, <1>7, Zenon DEF RankMapOK
<1>9. QED BY <1>1, <1>4, <1>8 DEF RankMapOK, UnsetRank, INVALID_INDEX

LEMMA TurnClientMap ==
  ASSUME ArgsOK, LoopOK, ClientMapOK, ConfigureRank
  PROVE  ClientMapOK'
<1> DEFINE Cell(c, r) == IF RankOf(c) < r
                         THEN [hostID |-> c \div clientThreadsPerHost, ranks |-> <<RankOf(c)>>]
                         ELSE EmptyClient
<1>1. rank < numProcs /\ rank' = rank + 1 /\ UNCHANGED args /\ SetClientMap
  BY DEF ConfigureRank
<1>2. rank \in T!Ranks /\ thisHost = T!HostOf(rank) /\ rank \in Nat
  BY <1>1, TurnPlace DEF LoopOK
<1>3. /\ isClient <=> T!IsClient(rank)
      /\ isClient => clientID = T!ClientID(rank)
  BY <1>1, TurnDecides
<1>4. clientMap = [c \in 0 .. numClients - 1 |-> Cell(c, rank)] BY DEF ClientMapOK
<1>5. clientMap' = [c \in 0 .. numClients - 1 |-> Cell(c, rank + 1)]
  <2>1. CASE isClient
    <3>1. /\ clientID \in 0 .. numClients - 1 /\ RankOf(clientID) = rank
          /\ clientID \div clientThreadsPerHost = thisHost
      BY <1>2, <1>3, <2>1, ClientOf
    <3>2. clientMap' = [clientMap EXCEPT ![clientID].hostID = thisHost,
                                         ![clientID].ranks = Append(@, rank)]
      BY <1>1, <2>1 DEF SetClientMap
    <3>3. Cell(clientID, rank) = EmptyClient
          /\ Cell(clientID, rank + 1) = [hostID |-> thisHost, ranks |-> <<rank>>]
      BY <1>2, <3>1
    <3>4. ASSUME NEW c \in 0 .. numClients - 1, c # clientID
          PROVE  Cell(c, rank + 1) = Cell(c, rank)
      <4>1. RankOf(c) \in Nat BY ClientPlace, HostsFacts DEF T!Ranks
      <4>2. RankOf(c) # rank
        <5>1. SUFFICES ASSUME RankOf(c) = rank PROVE c = T!ClientID(rank)
          BY <1>3, <2>1, <3>4
        <5>2. QED BY <5>1, ClientPlace DEF T!ClientID
      <4>3. QED BY <1>2, <4>1, <4>2
    <3>5. Append(<<>>, rank) = <<rank>> OBVIOUS
    <3>6. clientMap[clientID] = EmptyClient BY <1>4, <3>1, <3>3
    <3>7. clientMap' = [clientMap EXCEPT ![clientID] = [hostID |-> thisHost, ranks |-> <<rank>>]]
      <4> HIDE DEF Cell
      <4>1. clientMap' = [clientMap EXCEPT ![clientID] =
                            [[clientMap[clientID] EXCEPT !.hostID = thisHost]
                               EXCEPT !.ranks = Append(@, rank)]]
        BY <1>4, <3>1, <3>2
      <4>2. [[EmptyClient EXCEPT !.hostID = thisHost] EXCEPT !.ranks = Append(@, rank)]
              = [hostID |-> thisHost, ranks |-> <<rank>>]
        <5> DEFINE f == [EmptyClient EXCEPT !.hostID = thisHost]
        <5>1. f = [hostID |-> thisHost, ranks |-> <<>>] BY DEF EmptyClient
        <5> HIDE DEF f
        <5>2. f.ranks = <<>> BY <5>1
        <5>3. [f EXCEPT !.ranks = <<rank>>] = [hostID |-> thisHost, ranks |-> <<rank>>]
          BY <5>1
        <5>4. [f EXCEPT !.ranks = Append(@, rank)] = [hostID |-> thisHost, ranks |-> <<rank>>]
          BY <3>5, <5>2, <5>3, Zenon
        <5>5. QED BY <5>4 DEF f
      <4>3. QED BY <3>6, <4>1, <4>2
    <3> HIDE DEF Cell
    <3>8. QED BY <1>4, <3>1, <3>3, <3>4, <3>7
  <2>2. CASE ~isClient
    <3>1. ASSUME NEW c \in 0 .. numClients - 1
          PROVE  Cell(c, rank + 1) = Cell(c, rank)
      <4>1. RankOf(c) \in Nat BY ClientPlace, HostsFacts DEF T!Ranks
      <4>2. T!hostOffset(RankOf(c)) < clientThreadsPerHost BY ClientPlace DEF ArgsOK
      <4>3. RankOf(c) # rank BY <1>3, <2>2, <4>2 DEF T!IsClient
      <4>4. QED BY <1>2, <4>1, <4>3
    <3>2. clientMap' = clientMap BY <1>1, <2>2 DEF SetClientMap
    <3> HIDE DEF Cell
    <3>3. QED BY <1>4, <3>1, <3>2
  <2>3. QED BY <2>1, <2>2
<1>6. numClients' = numClients /\ \A c : RankOf(c)' = RankOf(c) BY <1>1, SameArgs
<1>7. QED BY <1>1, <1>5, <1>6 DEF ClientMapOK, args, EmptyClient, INVALID_INDEX

LEMMA TurnServerMap ==
  ASSUME ArgsOK, LoopOK, ServerMapOK, ConfigureRank
  PROVE  ServerMapOK'
<1> DEFINE q == T!HostOf(rank)
           Cell(h, r) == [hostID  |-> IF FirstHP(h) < r THEN h ELSE INVALID_INDEX,
                          HPranks |-> HPBelow(h, r), LPranks |-> LPBelow(h, r)]
<1>1. rank < numProcs /\ rank' = rank + 1 /\ UNCHANGED args /\ SetServerMap
  BY DEF ConfigureRank
<1>2. rank \in T!Ranks /\ thisHost = q /\ rank \in Nat
  BY <1>1, TurnPlace DEF LoopOK
<1>3. /\ isClient <=> T!IsClient(rank)
      /\ isHPServer <=> T!IsHPServer(rank)
      /\ isLPServer <=> T!IsLPServer(rank)
      /\ serverID = q
  BY <1>1, TurnDecides
<1>4. q \in T!Servers BY <1>2, RankPlace
<1>5. serverMap = [h \in T!Servers |-> Cell(h, rank)] BY DEF ServerMapOK
<1>6. ASSUME NEW h \in T!Servers, h # q PROVE Cell(h, rank + 1) = Cell(h, rank)
  BY <1>2, <1>6, OtherHost
<1>7. serverMap' = [serverMap EXCEPT ![q] = Cell(q, rank + 1)]
  <2>1. serverMap[q] = Cell(q, rank) BY <1>4, <1>5
  <2>2. CASE isClient
    <3>1. ~isHPServer /\ ~isLPServer
      BY <2>2 DEF isHPServer, isLPServer, isServer
    <3>2. serverMap' = serverMap BY <1>1, <3>1 DEF SetServerMap
    <3>3. Cell(q, rank + 1) = Cell(q, rank) BY <1>2, <1>3, <2>2, OwnHost
    <3> HIDE DEF Cell, q
    <3>4. QED BY <1>4, <1>5, <2>1, <3>2, <3>3
  <2>3. CASE isHPServer
    <3>1. ~isClient /\ ~isLPServer
      BY <2>3 DEF isHPServer, isLPServer, isServer
    <3>2. serverMap' = [serverMap EXCEPT ![q].hostID = q, ![q].HPranks = Append(@, rank)]
      BY <1>1, <1>2, <1>3, <3>1 DEF SetServerMap
    <3>3. /\ HPBelow(q, rank + 1) = Append(HPBelow(q, rank), rank)
          /\ LPBelow(q, rank + 1) = LPBelow(q, rank) /\ FirstHP(q) < rank + 1
      BY <1>2, <1>3, <2>3, OwnHost
    <3>4. Cell(q, rank + 1) = [[Cell(q, rank) EXCEPT !.hostID = q] EXCEPT !.HPranks = Append(@, rank)]
      <4>1. Cell(q, rank + 1) = [hostID |-> q, HPranks |-> HPBelow(q, rank + 1),
                                 LPranks |-> LPBelow(q, rank + 1)]
        BY <3>3
      <4> DEFINE f == [Cell(q, rank) EXCEPT !.hostID = q]
      <4>2. f = [hostID |-> q, HPranks |-> HPBelow(q, rank), LPranks |-> LPBelow(q, rank)]
        OBVIOUS
      <4> HIDE DEF f
      <4>3. f.HPranks = HPBelow(q, rank) BY <4>2
      <4>4. [f EXCEPT !.HPranks = Append(HPBelow(q, rank), rank)]
              = [hostID |-> q, HPranks |-> Append(HPBelow(q, rank), rank),
                 LPranks |-> LPBelow(q, rank)]
        BY <4>2
      <4>5. [f EXCEPT !.HPranks = Append(@, rank)] = Cell(q, rank + 1)
        BY <3>3, <4>1, <4>3, <4>4, Zenon
      <4>6. QED BY <4>5 DEF f
    <3> HIDE DEF Cell, q
    <3>5. serverMap' = [serverMap EXCEPT ![q] = [[serverMap[q] EXCEPT !.hostID = q]
                                                   EXCEPT !.HPranks = Append(@, rank)]]
      BY <1>4, <1>5, <3>2
    <3>6. QED BY <2>1, <3>4, <3>5
  <2>4. CASE isLPServer
    <3>1. ~isClient /\ ~isHPServer
      BY <2>4 DEF isHPServer, isLPServer, isServer
    <3>2. serverMap' = [serverMap EXCEPT ![q].hostID = q, ![q].LPranks = Append(@, rank)]
      BY <1>1, <1>2, <1>3, <3>1 DEF SetServerMap
    <3>3. /\ LPBelow(q, rank + 1) = Append(LPBelow(q, rank), rank)
          /\ HPBelow(q, rank + 1) = HPBelow(q, rank) /\ FirstHP(q) < rank + 1
      BY <1>2, <1>3, <2>4, OwnHost
    <3>4. Cell(q, rank + 1) = [[Cell(q, rank) EXCEPT !.hostID = q] EXCEPT !.LPranks = Append(@, rank)]
      <4>1. Cell(q, rank + 1) = [hostID |-> q, HPranks |-> HPBelow(q, rank + 1),
                                 LPranks |-> LPBelow(q, rank + 1)]
        BY <3>3
      <4> DEFINE f == [Cell(q, rank) EXCEPT !.hostID = q]
      <4>2. f = [hostID |-> q, HPranks |-> HPBelow(q, rank), LPranks |-> LPBelow(q, rank)]
        OBVIOUS
      <4> HIDE DEF f
      <4>3. f.LPranks = LPBelow(q, rank) BY <4>2
      <4>4. [f EXCEPT !.LPranks = Append(LPBelow(q, rank), rank)]
              = [hostID |-> q, HPranks |-> HPBelow(q, rank),
                 LPranks |-> Append(LPBelow(q, rank), rank)]
        BY <4>2, SMTT(30)
      <4>5. [f EXCEPT !.LPranks = Append(@, rank)] = Cell(q, rank + 1)
        BY <3>3, <4>1, <4>3, <4>4, Zenon
      <4>6. QED BY <4>5 DEF f
    <3> HIDE DEF Cell, q
    <3>5. serverMap' = [serverMap EXCEPT ![q] = [[serverMap[q] EXCEPT !.hostID = q]
                                                   EXCEPT !.LPranks = Append(@, rank)]]
      BY <1>4, <1>5, <3>2
    <3>6. QED BY <2>1, <3>4, <3>5
  <2>5. QED BY <2>2, <2>3, <2>4 DEF isLPServer, isServer
<1>8. serverMap' = [h \in T!Servers |-> Cell(h, rank + 1)]
  <2> HIDE DEF Cell, q
  <2>1. QED BY <1>4, <1>5, <1>6, <1>7
<1>9. /\ T!Servers' = T!Servers /\ numLPThreads' = numLPThreads
      /\ \A h : FirstHP(h)' = FirstHP(h) /\ FirstLP(h)' = FirstLP(h)
  BY <1>1, SameArgs
<1>10. ASSUME NEW h
       PROVE  HPBelow(h, rank)' = HPBelow(h, rank + 1) /\ LPBelow(h, rank)' = LPBelow(h, rank + 1)
  BY <1>1, <1>9 DEF HPBelow, LPBelow, args
<1>11. QED BY <1>1, <1>8, <1>9, <1>10 DEF ServerMapOK, INVALID_INDEX

LEMMA MapInvStep == MapInv /\ [Next]_vars => MapInv'
<1> SUFFICES ASSUME MapInv, [Next]_vars PROVE MapInv' OBVIOUS
<1>1. CASE ConfigureRank
  <2>1. rank < numProcs /\ rank' = rank + 1 /\ UNCHANGED args /\ hostID' = thisHost
    BY <1>1 DEF ConfigureRank
  <2>2. thisHost = T!HostOf(rank) /\ rank \in Nat /\ numProcs \in Nat
    BY <2>1, TurnPlace, HostsFacts DEF MapInv, LoopOK
  <2>3. LoopOK'
    <3>1. rank' - 1 = rank /\ rank' # 0 /\ rank' \in 0 .. numProcs BY <2>1, <2>2
    <3>2. T!procsPerHost' = T!procsPerHost /\ numProcs' = numProcs BY <2>1, SameArgs DEF args
    <3>3. T!HostOf(rank' - 1) = T!HostOf(rank) BY <3>1
    <3>4. QED BY <2>1, <2>2, <3>1, <3>2, <3>3 DEF LoopOK, T!HostOf
  <2>4. QED BY <1>1, <2>1, <2>3, SameArgs, TurnRankMap, TurnClientMap, TurnServerMap DEF MapInv
<1>2. CASE UNCHANGED vars
  <2>1. UNCHANGED args /\ rank' = rank /\ hostID' = hostID /\ rankMap' = rankMap
        /\ clientMap' = clientMap /\ serverMap' = serverMap
    BY <1>2 DEF vars
  <2>2. ArgsOK' BY <2>1, SameArgs DEF MapInv
  <2>3. LoopOK'
    BY <2>1, SameArgs DEF MapInv, LoopOK, T!HostOf, args
  <2>4. RankMapOK' BY <2>1, SameArgs DEF MapInv, RankMapOK, UnsetRank, INVALID_INDEX
  <2>5. ClientMapOK'
    BY <2>1, SameArgs DEF MapInv, ClientMapOK, EmptyClient, INVALID_INDEX, args
  <2>6. ServerMapOK'
    BY <2>1, SameArgs DEF MapInv, ServerMapOK, HPBelow, LPBelow, INVALID_INDEX, args
  <2>7. QED BY <2>2, <2>3, <2>4, <2>5, <2>6 DEF MapInv
<1>3. QED BY <1>1, <1>2 DEF Next

LEMMA MapInvInit == Init => MapInv
<1> SUFFICES ASSUME Init PROVE MapInv OBVIOUS
<1> DEFINE P == T!procsPerHost
<1>1. /\ clientThreadsPerHost \in Nat \ {0}
      /\ serverThreadsPerHost \in Nat \ {0}
      /\ coresForHPThreads \in 0 .. serverThreadsPerHost - 1
  BY BoundsAssumption DEF Init
<1>2. P = clientThreadsPerHost + serverThreadsPerHost /\ P \in Nat \ {0}
  BY <1>1 DEF T!procsPerHost
<1>3. PICK h \in 1 .. MaxHosts : numProcs = h * P BY <1>2 DEF Init
<1>4. h \in Nat \ {0} BY BoundsAssumption
<1>5. T!numHosts = h
  <2>1. h * P \in Nat /\ h * P + 0 = h * P BY <1>2, <1>4, SMT
  <2>2. (h * P + 0) \div P = h BY <1>2, <1>4, DivUnique
  <2>3. QED BY <1>3, <2>1, <2>2 DEF T!numHosts
<1>6. ArgsOK BY <1>1, <1>3, <1>4, <1>5 DEF ArgsOK
<1>7. numProcs \in Nat /\ rank = 0 /\ hostID = 0 BY <1>6, HostsFacts DEF Init
<1>8. LoopOK BY <1>7 DEF LoopOK
<1>9. RankMapOK
  <2>1. \A r \in T!Ranks : ~(r < 0) BY <1>7 DEF T!Ranks
  <2>2. rankMap = [r \in T!Ranks |-> UnsetRank] BY DEF Init
  <2>3. QED BY <1>7, <2>1, <2>2 DEF RankMapOK
<1>10. ClientMapOK
  <2>1. \A c \in 0 .. numClients - 1 : ~(RankOf(c) < 0) BY <1>6, <1>7, ClientPlace DEF T!Ranks
  <2>2. clientMap = [c \in 0 .. numClients - 1 |-> EmptyClient] BY DEF Init
  <2>3. QED BY <1>7, <2>1, <2>2 DEF ClientMapOK
<1>11. ServerMapOK
  <2>1. ASSUME NEW g \in T!Servers
        PROVE  /\ ~(FirstHP(g) < 0)
               /\ HPBelow(g, 0) = <<>> /\ LPBelow(g, 0) = <<>>
    <3>1. FirstHP(g) \in Nat \ {0} /\ FirstLP(g) \in Nat \ {0}
      <4>1. g * P \in Nat BY <1>2, <1>4, <1>5, SMT DEF T!Servers, T!Hosts
      <4>2. QED BY <1>1, <4>1 DEF FirstHP, FirstLP
    <3>2. Clamp(0 - FirstHP(g), coresForHPThreads) = 0 /\ Clamp(0 - FirstLP(g), numLPThreads) = 0
      BY <3>1 DEF Clamp
    <3>3. \A base : From(base, 0) = <<>> BY DEF From
    <3>4. QED BY <3>1, <3>2, <3>3 DEF HPBelow, LPBelow
  <2>2. serverMap = [g \in T!Servers |-> EmptyServer] BY DEF Init
  <2>3. QED BY <1>7, <2>1, <2>2 DEF ServerMapOK, EmptyServer
<1>12. QED BY <1>6, <1>8, <1>9, <1>10, <1>11 DEF MapInv

-------------------------------------------------------------------------------
(* What follows from the invariant                                           *)

LEMMA InvWritesInBounds == MapInv => WritesInBounds
<1> SUFFICES ASSUME MapInv, rank < numProcs PROVE
      /\ isClient => clientID \in DOMAIN clientMap /\ Len(clientMap[clientID].ranks) < 1
      /\ isServer => serverID \in DOMAIN serverMap
      /\ isHPServer => Len(serverMap[serverID].HPranks) < coresForHPThreads
      /\ isLPServer => Len(serverMap[serverID].LPranks) < serverThreadsPerHost - coresForHPThreads
  BY DEF WritesInBounds
<1>1. rank \in T!Ranks /\ rank \in Nat BY TurnPlace DEF MapInv, LoopOK
<1>2. /\ isClient <=> T!IsClient(rank)
      /\ isHPServer <=> T!IsHPServer(rank)
      /\ isLPServer <=> T!IsLPServer(rank)
      /\ serverID = T!HostOf(rank)
      /\ isClient => clientID = T!ClientID(rank)
  BY TurnDecides DEF MapInv
<1>3. ASSUME isClient PROVE clientID \in DOMAIN clientMap /\ Len(clientMap[clientID].ranks) < 1
  <2>1. clientID \in 0 .. numClients - 1 /\ RankOf(clientID) = rank
    BY <1>1, <1>2, <1>3, ClientOf DEF MapInv
  <2>2. clientMap[clientID] = EmptyClient BY <1>1, <2>1 DEF MapInv, ClientMapOK
  <2>3. Len(EmptyClient.ranks) = 0 BY DEF EmptyClient
  <2>4. QED BY <2>1, <2>2, <2>3 DEF MapInv, ClientMapOK
<1>4. serverID \in T!Servers BY <1>1, <1>2, RankPlace DEF MapInv
<1>5. /\ serverID \in DOMAIN serverMap
      /\ serverMap[serverID].HPranks = HPBelow(serverID, rank)
      /\ serverMap[serverID].LPranks = LPBelow(serverID, rank)
  BY <1>4 DEF MapInv, ServerMapOK
<1>6. isHPServer => Len(serverMap[serverID].HPranks) < coresForHPThreads
  BY <1>1, <1>2, <1>5, OwnHost DEF MapInv
<1>7. isLPServer => Len(serverMap[serverID].LPranks) < serverThreadsPerHost - coresForHPThreads
  BY <1>1, <1>2, <1>5, OwnHost DEF MapInv, numLPThreads
<1>8. QED BY <1>3, <1>5, <1>6, <1>7

LEMMA RangeOfFrom ==
  ASSUME NEW base \in Int, NEW len \in Nat
  PROVE  \A x \in Int : x \in RangeOf(From(base, len)) <=> base <= x /\ x < base + len
<1>1. DOMAIN From(base, len) = 1 .. len /\ \A i \in 1 .. len : From(base, len)[i] = base + i - 1
  BY DEF From
<1>2. ASSUME NEW x \in Int, base <= x, x < base + len PROVE x \in RangeOf(From(base, len))
  <2>1. x - base + 1 \in 1 .. len /\ base + (x - base + 1) - 1 = x BY <1>2
  <2>2. QED BY <1>1, <2>1 DEF RangeOf
<1>3. ASSUME NEW x \in Int, x \in RangeOf(From(base, len)) PROVE base <= x /\ x < base + len
  <2>1. PICK i \in 1 .. len : x = base + i - 1 BY <1>1, <1>3 DEF RangeOf
  <2>2. QED BY <2>1
<1>4. QED BY <1>2, <1>3

\* The threads of a host of each priority are a block of ranks.
LEMMA HostBlocks ==
  ASSUME ArgsOK, NEW h \in T!Servers, NEW x \in Int
  PROVE  /\ x \in T!HPRanks(h) <=> FirstHP(h) <= x /\ x < FirstHP(h) + coresForHPThreads
         /\ x \in T!LPRanks(h) <=> FirstLP(h) <= x /\ x < FirstLP(h) + numLPThreads
<1> DEFINE P == T!procsPerHost
           C == clientThreadsPerHost
           K == coresForHPThreads
           L == numLPThreads
           a == h * P
<1>0. /\ P = C + K + L /\ C \in Nat \ {0} /\ K \in Nat /\ L \in Nat \ {0} /\ P \in Nat \ {0}
  BY HostsFacts DEF ArgsOK, numLPThreads
<1>1. a \in Nat /\ h \in Nat BY <1>0, SMT DEF T!Servers, T!Hosts, ArgsOK
<1>2. FirstHP(h) = a + C /\ FirstLP(h) = a + C + K BY DEF FirstHP, FirstLP
<1>3. ASSUME x \in T!Ranks, T!HostOf(x) = h
      PROVE  /\ T!IsHPServer(x) <=> a + C <= x /\ x < a + C + K
             /\ T!IsLPServer(x) <=> a + C + K <= x
             /\ x < a + P
  <2>1. x = a + T!hostOffset(x) /\ T!hostOffset(x) \in 0 .. P - 1 BY <1>3, RankPlace
  <2>2. T!IsHPServer(x) <=> C <= T!hostOffset(x) /\ T!hostOffset(x) < C + K
    BY <1>0, <2>1 DEF T!IsHPServer, T!IsServer, T!IsClient
  <2>3. T!IsLPServer(x) <=> C + K <= T!hostOffset(x)
    BY <1>0, <2>1, <2>2 DEF T!IsLPServer, T!IsServer, T!IsClient
  <2> HIDE DEF a
  <2>4. QED BY <1>0, <1>1, <2>1, <2>2, <2>3
<1>4. ASSUME a + C <= x, x < a + P
      PROVE  x \in T!Ranks /\ T!HostOf(x) = h
  <2>1. x - a \in 0 .. P - 1 /\ a + (x - a) = x BY <1>0, <1>1, <1>4
  <2>2. QED BY <2>1, PlaceRank
<1> HIDE DEF a
<1>5. x \in T!HPRanks(h) <=> a + C <= x /\ x < a + C + K
  <2>1. x \in T!HPRanks(h) <=> x \in T!Ranks /\ T!HostOf(x) = h /\ T!IsHPServer(x)
    BY DEF T!HPRanks
  <2>2. x < a + C + K => x < a + P BY <1>0, <1>1
  <2>3. QED BY <1>3, <1>4, <2>1, <2>2
<1>6. x \in T!LPRanks(h) <=> a + C + K <= x /\ x < a + C + K + L
  <2>1. x \in T!LPRanks(h) <=> x \in T!Ranks /\ T!HostOf(x) = h /\ T!IsLPServer(x)
    BY DEF T!LPRanks
  <2>2. a + C + K <= x => a + C <= x BY <1>0, <1>1
  <2>3. a + P = a + C + K + L BY <1>0, <1>1
  <2>4. QED BY <1>3, <1>4, <2>1, <2>2, <2>3
<1>7. QED BY <1>2, <1>5, <1>6

LEMMA InvMapsMatchTopology == MapInv => MapsMatchTopology
<1> SUFFICES ASSUME MapInv PROVE MapsMatchTopology OBVIOUS
<1>0. rank \in Nat /\ numProcs \in Nat /\ rank <= numProcs
  BY HostsFacts DEF MapInv, LoopOK
<1>1. ASSUME NEW r \in 0 .. rank - 1 PROVE rankMap[r] = Entry(r)
  <2>1. r \in T!Ranks /\ r < rank BY <1>0 DEF T!Ranks
  <2>2. QED BY <2>1 DEF MapInv, RankMapOK
<1>2. ASSUME NEW h \in T!Servers
      PROVE  /\ RangeOf(serverMap[h].HPranks) = T!HPRanks(h) \intersect (0 .. rank - 1)
             /\ RangeOf(serverMap[h].LPranks) = T!LPRanks(h) \intersect (0 .. rank - 1)
             /\ serverMap[h].HPranks \o serverMap[h].LPranks # <<>> => serverMap[h].hostID = h
  <2> DEFINE f == FirstHP(h)
             g == FirstLP(h)
             K == coresForHPThreads
             L == numLPThreads
             k == Clamp(rank - f, K)
             l == Clamp(rank - g, L)
  <2>1. /\ serverMap[h].HPranks = From(f, k) /\ serverMap[h].LPranks = From(g, l)
        /\ serverMap[h].hostID = IF f < rank THEN h ELSE INVALID_INDEX
    BY DEF MapInv, ServerMapOK, HPBelow, LPBelow
  <2>2. f \in Nat /\ g \in Nat /\ K \in Nat /\ L \in Nat /\ f <= g
    <3>1. /\ T!procsPerHost \in Nat /\ h \in Nat /\ K \in Nat /\ L \in Nat
          /\ clientThreadsPerHost \in Nat
      BY HostsFacts DEF MapInv, ArgsOK, T!Servers, T!Hosts
    <3>2. h * T!procsPerHost \in Nat BY <3>1, SMT
    <3>3. QED BY <3>1, <3>2 DEF FirstHP, FirstLP
  <2>3. /\ \A x \in Int : x \in T!HPRanks(h) <=> f <= x /\ x < f + K
        /\ \A x \in Int : x \in T!LPRanks(h) <=> g <= x /\ x < g + L
    BY HostBlocks DEF MapInv
  <2> HIDE DEF f, g, K, L
  <2>4. k \in Nat /\ l \in Nat BY <1>0, <2>2 DEF Clamp
  <2>5. /\ \A x \in Int : x \in RangeOf(From(f, k)) <=> f <= x /\ x < f + k
        /\ \A x \in Int : x \in RangeOf(From(g, l)) <=> g <= x /\ x < g + l
    BY <2>2, <2>4, RangeOfFrom
  <2>6. /\ \A x \in Int : f <= x /\ x < f + k <=> f <= x /\ x < f + K /\ 0 <= x /\ x <= rank - 1
        /\ \A x \in Int : g <= x /\ x < g + l <=> g <= x /\ x < g + L /\ 0 <= x /\ x <= rank - 1
    BY <1>0, <2>2 DEF Clamp
  <2>7. T!HPRanks(h) \subseteq Int /\ T!LPRanks(h) \subseteq Int
        /\ RangeOf(From(f, k)) \subseteq Int /\ RangeOf(From(g, l)) \subseteq Int
    <3>1. T!HPRanks(h) \subseteq Int /\ T!LPRanks(h) \subseteq Int
      BY <1>0 DEF T!HPRanks, T!LPRanks, T!Ranks
    <3>2. \A b \in Nat, n \in Nat : RangeOf(From(b, n)) \subseteq Int BY DEF RangeOf, From
    <3>3. QED BY <2>2, <2>4, <3>1, <3>2
  <2>8. \A x \in Int : x \in 0 .. rank - 1 <=> 0 <= x /\ x <= rank - 1 BY <1>0
  <2> HIDE DEF k, l
  <2>9. RangeOf(From(f, k)) = T!HPRanks(h) \intersect (0 .. rank - 1)
    BY <2>3, <2>5, <2>6, <2>7, <2>8
  <2>10. RangeOf(From(g, l)) = T!LPRanks(h) \intersect (0 .. rank - 1)
    BY <2>3, <2>5, <2>6, <2>7, <2>8
  <2>11. ASSUME ~(f < rank) PROVE From(f, k) \o From(g, l) = <<>>
    <3>1. k = 0 /\ l = 0 BY <1>0, <2>2, <2>11 DEF Clamp, k, l
    <3>2. From(f, 0) = <<>> /\ From(g, 0) = <<>> BY DEF From
    <3>3. QED BY <3>1, <3>2
  <2>12. QED BY <2>1, <2>9, <2>10, <2>11
<1>3. ASSUME NEW r \in T!Clients \intersect (0 .. rank - 1)
      PROVE  clientMap[T!ClientID(r)] = [hostID |-> T!HostOf(r), ranks |-> <<r>>]
  <2>1. r \in T!Ranks /\ T!IsClient(r) /\ r < rank BY <1>0 DEF T!Clients
  <2>2. /\ T!ClientID(r) \in 0 .. numClients - 1 /\ RankOf(T!ClientID(r)) = r
        /\ T!ClientID(r) \div clientThreadsPerHost = T!HostOf(r)
    BY <2>1, ClientOf DEF MapInv
  <2>3. QED BY <2>1, <2>2 DEF MapInv, ClientMapOK
<1>4. QED BY <1>1, <1>2, <1>3 DEF MapsMatchTopology, Entry

-------------------------------------------------------------------------------

\* The loop of configMaps keeps MapInv, for every argument main accepts.
THEOREM MapsBuilt == Spec => []MapInv
BY MapInvInit, MapInvStep, PTL DEF Spec

\* configMaps never writes outside the arrays of runSim, nor outside the rank lists
\* of entityEntry and serverEntry.
THEOREM WritesStayInBounds == Spec => []WritesInBounds
BY MapsBuilt, InvWritesInBounds, PTL

\* The maps are the closed forms of Topology, rank by rank.
THEOREM MapsAreTopology == Spec => []MapsMatchTopology
BY MapsBuilt, InvMapsMatchTopology, PTL

-------------------------------------------------------------------------------
(* Induction                                                                 *)

LEMMA LeastNat ==
  ASSUME NEW S, S \subseteq Nat, S # {}
  PROVE  \E m \in S : \A k \in S : m <= k
<1>1. PICK m \in S : \A k \in S : <<k, m>> \notin OpToRel(<, Nat)
  BY NatLessThanWellFounded, WFMin
<1>2. \A k \in S : ~ (k < m) BY <1>1 DEF OpToRel
<1>3. QED BY <1>2

LEMMA SetInduction ==
  ASSUME NEW S, 0 \in S, \A k \in Nat : k \in S => k + 1 \in S
  PROVE  \A k \in Nat : k \in S
<1> SUFFICES ASSUME \E k \in Nat : k \notin S PROVE FALSE OBVIOUS
<1>1. Nat \ S \subseteq Nat /\ Nat \ S # {} OBVIOUS
<1>2. PICK m \in Nat \ S : \A k \in Nat \ S : m <= k BY <1>1, LeastNat
<1>3. m # 0 /\ m - 1 \in Nat /\ m - 1 < m /\ (m - 1) + 1 = m BY <1>2
<1>4. m - 1 \in S BY <1>2, <1>3
<1>5. QED BY <1>2, <1>3, <1>4

-------------------------------------------------------------------------------
(* The generator                                                             *)

LEMMA ModulusType == Modulus \in Nat \ {0} /\ 0 \in Seeds /\ Seeds \subseteq Nat
<1>1. Modulus \in Nat \ {0} BY DEF Modulus
<1>2. QED BY <1>1 DEF Seeds

LEMMA TimesType ==
  ASSUME NEW x \in Int, NEW y \in Int
  PROVE  Times(x, y) \in Seeds
<1> DEFINE B == 2^15
           xl == x % B  xh == x \div B
           yl == y % B  yh == y \div B
<1>1. B \in Nat \ {0} OBVIOUS
<1>2. xl \in Int /\ xh \in Int /\ yl \in Int /\ yh \in Int BY <1>1
<1> DEFINE middle == xl * yh + xh * yl
<1> HIDE DEF xl, xh, yl, yh
<1>3. middle \in Int BY <1>2
<1> HIDE DEF middle
<1>4. middle % B \in Int BY <1>1, <1>3
<1> DEFINE ml == middle % B
<1> HIDE DEF ml, B
<1>5. xl * yl + ml * B \in Int BY <1>1, <1>2, <1>4 DEF ml
<1>6. Times(x, y) = (xl * yl + ml * B) % Modulus
  BY DEF Times, B, xl, xh, yl, yh, middle, ml
<1> DEFINE v == xl * yl + ml * B
<1> HIDE DEF v
<1>7. v \in Int BY <1>5 DEF v
<1>8. v % Modulus \in 0 .. Modulus - 1 BY <1>7, ModulusType
<1>9. QED BY <1>6, <1>8 DEF Seeds, v

LEMMA RandomType ==
  ASSUME NEW s \in Seeds
  PROVE  myRandom(s) \in Seeds
<1>1. s \in Int /\ Modulus \in Nat \ {0} BY ModulusType
<1>2. Multiplier \in Int BY <1>1 DEF Multiplier
<1>3. Times(Multiplier, s) \in Seeds BY <1>1, <1>2, TimesType
<1>4. PICK t \in Nat : t = Times(Multiplier, s) BY <1>3, ModulusType
<1>5. (t + Increment) % Modulus \in 0 .. Modulus - 1 BY <1>1 DEF Increment
<1>6. QED BY <1>4, <1>5 DEF myRandom, Seeds

LEMMA InitialSeedType ==
  ASSUME NEW r \in Int, clientThreadsPerHost \in Nat \ {0}, serverThreadsPerHost \in Nat \ {0}
  PROVE  InitialSeed(r) \in Seeds
<1> DEFINE thread == IF T!IsClient(r) THEN r % clientThreadsPerHost ELSE T!threadID(r)
<1>1. thread \in Int BY DEF T!threadID
<1> HIDE DEF thread
<1>2. Modulus \in Nat \ {0} BY ModulusType
<1>3. RankMultiplier \in Int BY <1>2 DEF RankMultiplier
<1>4. PICK t \in Seeds : t = Times(RankMultiplier, r) BY <1>3, TimesType
<1>5. t \in Int BY ModulusType
<1>6. (t + 1999 * thread) % Modulus \in 0 .. Modulus - 1 BY <1>1, <1>2, <1>5
<1>7. QED BY <1>4, <1>6 DEF InitialSeed, Seeds, thread

-------------------------------------------------------------------------------
(* Many draws                                                                *)

\* The right-hand side of the recursion of Draws
Drawing(d, p) ==
  IF p[1] = 0 THEN p[2]
  ELSE IF p[1] = 1 THEN myRandom(p[2])
  ELSE d[<<p[1] - (p[1] \div 2), d[<<p[1] \div 2, p[2]>>]>>]

IsDrawn(d, n) == d = [p \in (0 .. n) \X Seeds |-> Drawing(d, p)]

\* Both halves of more than one draw are fewer draws.
LEMMA Halves ==
  ASSUME NEW k \in Nat, k > 1
  PROVE  k \div 2 \in 0 .. k - 1 /\ k - (k \div 2) \in 0 .. k - 1
  OBVIOUS

\* For k draws only the values for fewer draws matter.
LEMMA DrawingType ==
  ASSUME NEW k \in Nat, NEW x \in Seeds, NEW d,
         \A j \in 0 .. k - 1, y \in Seeds : d[<<j, y>>] \in Seeds
  PROVE  Drawing(d, <<k, x>>) \in Seeds
<1>1. CASE k = 0 BY <1>1 DEF Drawing
<1>2. CASE k = 1 BY <1>2, RandomType DEF Drawing
<1>3. CASE k > 1
  <2>1. k \div 2 \in 0 .. k - 1 /\ k - (k \div 2) \in 0 .. k - 1 BY <1>3, Halves
  <2>2. PICK y \in Seeds : y = d[<<k \div 2, x>>] BY <2>1
  <2>3. d[<<k - (k \div 2), y>>] \in Seeds BY <2>1
  <2>4. QED BY <1>3, <2>2, <2>3 DEF Drawing
<1>4. QED BY <1>1, <1>2, <1>3

LEMMA DrawingSame ==
  ASSUME NEW k \in Nat, NEW x \in Seeds, NEW d, NEW e,
         \A j \in 0 .. k - 1, y \in Seeds : d[<<j, y>>] \in Seeds /\ d[<<j, y>>] = e[<<j, y>>]
  PROVE  Drawing(d, <<k, x>>) = Drawing(e, <<k, x>>)
<1>1. CASE k = 0 BY <1>1 DEF Drawing
<1>2. CASE k = 1 BY <1>2 DEF Drawing
<1>3. CASE k > 1
  <2>1. k \div 2 \in 0 .. k - 1 /\ k - (k \div 2) \in 0 .. k - 1 BY <1>3, Halves
  <2>2. PICK y \in Seeds : y = d[<<k \div 2, x>>] /\ y = e[<<k \div 2, x>>] BY <2>1
  <2>3. d[<<k - (k \div 2), y>>] = e[<<k - (k \div 2), y>>] BY <2>1
  <2>4. QED BY <1>3, <2>2, <2>3 DEF Drawing
<1>4. QED BY <1>1, <1>2, <1>3

LEMMA DrawnApply ==
  ASSUME NEW n \in Nat, NEW d, IsDrawn(d, n), NEW k \in 0 .. n, NEW x \in Seeds
  PROVE  d[<<k, x>>] = Drawing(d, <<k, x>>)
  BY DEF IsDrawn

\* A function that obeys the recursion has seeds for values.
LEMMA DrawnType ==
  ASSUME NEW n \in Nat, NEW d, IsDrawn(d, n)
  PROVE  \A k \in 0 .. n, x \in Seeds : d[<<k, x>>] \in Seeds
<1> DEFINE Bad == {k \in 0 .. n : \E x \in Seeds : d[<<k, x>>] \notin Seeds}
<1> SUFFICES ASSUME Bad # {} PROVE FALSE OBVIOUS
<1>1. Bad \subseteq Nat OBVIOUS
<1>2. PICK k \in Bad : \A j \in Bad : k <= j
  <2> HIDE DEF Bad
  <2>1. QED BY <1>1, LeastNat
<1>3. PICK x \in Seeds : d[<<k, x>>] \notin Seeds OBVIOUS
<1>4. k \in 0 .. n /\ k \in Nat OBVIOUS
<1>5. \A j \in 0 .. k - 1 : j \notin Bad
  <2> HIDE DEF Bad
  <2>1. QED BY <1>2, <1>4
<1>6. ASSUME NEW j \in 0 .. k - 1, NEW y \in Seeds PROVE d[<<j, y>>] \in Seeds
  <2>1. j \in 0 .. n /\ j \notin Bad BY <1>4, <1>5
  <2>2. QED BY <2>1
<1>7. Drawing(d, <<k, x>>) \in Seeds BY <1>4, <1>6, DrawingType
<1>8. QED BY <1>3, <1>4, <1>7, DrawnApply

\* A function for one draw more.
LEMMA DrawnExtends ==
  ASSUME NEW n \in Nat, NEW d, IsDrawn(d, n)
  PROVE  \E e : IsDrawn(e, n + 1)
<1> DEFINE e == [p \in (0 .. n + 1) \X Seeds |->
                   IF p[1] <= n THEN d[p] ELSE Drawing(d, p)]
<1>1. \A k \in 0 .. n, x \in Seeds : d[<<k, x>>] \in Seeds BY DrawnType
<1>2. ASSUME NEW k \in 0 .. n, NEW x \in Seeds PROVE e[<<k, x>>] = d[<<k, x>>]
  OBVIOUS
<1>3. ASSUME NEW x \in Seeds PROVE e[<<n + 1, x>>] = Drawing(d, <<n + 1, x>>)
  OBVIOUS
<1>4. e = [p \in (0 .. n + 1) \X Seeds |-> e[p]] OBVIOUS
<1> HIDE DEF e
<1>5. ASSUME NEW k \in 0 .. n + 1, NEW x \in Seeds
      PROVE  e[<<k, x>>] = Drawing(e, <<k, x>>)
  <2>1. \A j \in 0 .. k - 1 : j \in 0 .. n OBVIOUS
  <2>2. \A j \in 0 .. k - 1, y \in Seeds : d[<<j, y>>] \in Seeds /\ d[<<j, y>>] = e[<<j, y>>]
    BY <1>1, <1>2, <2>1
  <2>3. Drawing(d, <<k, x>>) = Drawing(e, <<k, x>>)
    <3>1. k \in Nat OBVIOUS
    <3>2. QED BY <2>2, <3>1, DrawingSame
  <2>4. CASE k <= n
    <3>1. k \in 0 .. n BY <2>4
    <3>2. QED BY <1>2, <2>3, <3>1, DrawnApply
  <2>5. CASE k = n + 1 BY <1>3, <2>3, <2>5
  <2>6. QED BY <2>4, <2>5
<1>6. ASSUME NEW p \in (0 .. n + 1) \X Seeds PROVE e[p] = Drawing(e, p)
  <2>1. PICK k \in 0 .. n + 1, x \in Seeds : p = <<k, x>> OBVIOUS
  <2>2. QED BY <1>5, <2>1
<1>7. [p \in (0 .. n + 1) \X Seeds |-> e[p]] = [p \in (0 .. n + 1) \X Seeds |-> Drawing(e, p)]
  BY <1>6
<1>8. QED BY <1>4, <1>7 DEF IsDrawn

LEMMA DrawnExists == \A n \in Nat : \E d : IsDrawn(d, n)
<1> DEFINE S == {n \in Nat : \E d : IsDrawn(d, n)}
<1>1. 0 \in S
  <2> DEFINE d == [p \in (0 .. 0) \X Seeds |-> p[2]]
  <2>1. \A p \in (0 .. 0) \X Seeds : Drawing(d, p) = p[2] BY DEF Drawing
  <2>2. IsDrawn(d, 0) BY <2>1 DEF IsDrawn
  <2>3. QED BY <2>2
<1>2. ASSUME NEW k \in Nat, k \in S PROVE k + 1 \in S
  <2>1. PICK d : IsDrawn(d, k) BY <1>2
  <2>2. QED BY <2>1, DrawnExtends
<1>3. \A n \in Nat : n \in S
  <2> HIDE DEF S
  <2>1. QED BY <1>1, <1>2, SetInduction
<1>4. QED BY <1>3

\* Any number of draws from a seed ends at a seed.
LEMMA DrawsType ==
  ASSUME NEW s \in Seeds, NEW n \in Nat
  PROVE  Draws(s, n) \in Seeds
<1> DEFINE d == CHOOSE e : e = [p \in (0 .. n) \X Seeds |-> Drawing(e, p)]
<1>1. \E e : e = [p \in (0 .. n) \X Seeds |-> Drawing(e, p)] BY DrawnExists DEF IsDrawn
<1>2. IsDrawn(d, n) BY <1>1 DEF IsDrawn
<1>3. Draws(s, n) = d[<<n, s>>] BY DEF Draws, Drawing
<1> HIDE DEF d
<1>4. QED BY <1>2, <1>3, DrawnType

-------------------------------------------------------------------------------
(* The choice of a thread                                                    *)

\* Once the loop has ended, serverMap has all threads of every server.
LEMMA MapsComplete ==
  ASSUME MapInv, rank = numProcs, NEW h \in T!Servers
  PROVE  /\ serverMap[h].HPranks = From(FirstHP(h), coresForHPThreads)
         /\ serverMap[h].LPranks = From(FirstLP(h), numLPThreads)
         /\ FirstHP(h) \in Int /\ FirstLP(h) \in Int
         /\ coresForHPThreads \in Nat /\ numLPThreads \in Nat \ {0}
<1> DEFINE P == T!procsPerHost
           C == clientThreadsPerHost
           K == coresForHPThreads
           L == numLPThreads
           a == h * P
<1>0. /\ P = C + K + L /\ C \in Nat \ {0} /\ K \in Nat /\ L \in Nat \ {0} /\ P \in Nat \ {0}
      /\ numProcs \in Nat
  BY HostsFacts DEF MapInv, ArgsOK, numLPThreads
<1>1. h \in Nat /\ T!numHosts \in Nat /\ h < T!numHosts
  BY DEF MapInv, ArgsOK, T!Servers, T!Hosts
<1>2. a \in Nat /\ a + P <= T!numHosts * P BY <1>0, <1>1, BlocksApart
<1>3. numProcs = T!numHosts * P BY DEF MapInv, ArgsOK
<1>4. FirstHP(h) = a + C /\ FirstLP(h) = a + C + K BY DEF FirstHP, FirstLP
<1> HIDE DEF P, C, K, L, a
<1>5. numProcs - FirstHP(h) >= K /\ numProcs - FirstLP(h) >= L
  BY <1>0, <1>2, <1>3, <1>4
<1>6. Clamp(numProcs - FirstHP(h), K) = K /\ Clamp(numProcs - FirstLP(h), L) = L
  BY <1>0, <1>2, <1>4, <1>5 DEF Clamp
<1>7. /\ serverMap[h].HPranks = HPBelow(h, numProcs)
      /\ serverMap[h].LPranks = LPBelow(h, numProcs)
  BY DEF MapInv, ServerMapOK
<1>8. QED BY <1>0, <1>2, <1>4, <1>6, <1>7 DEF HPBelow, LPBelow, K, L

\* The place a server thread computes for itself says what the layout says.
LEMMA PriorityOf ==
  ASSUME ArgsOK, NEW r \in T!Ranks, T!IsServer(r)
  PROVE  T!server_getPriority(r) <=> T!IsHPServer(r)
<1>1. /\ clientThreadsPerHost \in Nat /\ serverThreadsPerHost \in Nat
      /\ coresForHPThreads \in Nat /\ T!procsPerHost \in Nat \ {0} /\ numProcs \in Nat
  BY HostsFacts DEF ArgsOK
<1>2. serverThreadsPerHost + clientThreadsPerHost = T!procsPerHost
  BY <1>1 DEF T!procsPerHost
<1>3. r \in Nat BY <1>1 DEF T!Ranks
<1>4. r % T!procsPerHost \in Nat BY <1>1, <1>3, DivRem
<1>5. T!threadID(r) = (r % T!procsPerHost) - clientThreadsPerHost
  BY <1>2 DEF T!threadID
<1>6. T!server_getPriority(r) <=> (r % T!procsPerHost) < clientThreadsPerHost + coresForHPThreads
  BY <1>1, <1>4, <1>5 DEF T!server_getPriority
<1>7. QED BY <1>6 DEF T!IsHPServer, T!hostOffset

\* A value for an index of a list of len ranks from base on.
LEMMA PickFrom ==
  ASSUME NEW base \in Int, NEW len \in Nat \ {0}, NEW s \in Nat
  PROVE  LET ranks == From(base, len)
             r     == ranks[(s % Len(ranks)) + 1]
         IN  r \in Int /\ base <= r /\ r < base + len
<1>1. Len(From(base, len)) = len BY FromLen
<1>2. s % len \in 0 .. len - 1 BY DivRem
<1>3. From(base, len)[(s % len) + 1] = base + (s % len) BY <1>2 DEF From
<1>4. QED BY <1>1, <1>2, <1>3

\* The thread a process picks is of the server it chose, and by its own arithmetic
\* of the priority it is picked for.
LEMMA PicksListener ==
  ASSUME MapInv, rank = numProcs, coresForHPThreads > 0,
         NEW s \in Nat, NEW h \in T!Servers, NEW k, k = "HP" \/ k = "LP"
  PROVE  LET r == ChooseServerRank(s, h, k)
         IN  /\ T!IsServer(r) /\ T!HostOf(r) = h
             /\ T!server_getPriority(r) <=> k = "HP"
<1> DEFINE r == ChooseServerRank(s, h, k)
<1>1. /\ serverMap[h].HPranks = From(FirstHP(h), coresForHPThreads)
      /\ serverMap[h].LPranks = From(FirstLP(h), numLPThreads)
      /\ FirstHP(h) \in Int /\ FirstLP(h) \in Int
      /\ coresForHPThreads \in Nat /\ numLPThreads \in Nat \ {0}
  BY MapsComplete
<1>2. CASE k = "HP"
  <2>1. r \in Int /\ FirstHP(h) <= r /\ r < FirstHP(h) + coresForHPThreads
    <3>1. coresForHPThreads \in Nat \ {0} BY <1>1
    <3>2. r = From(FirstHP(h), coresForHPThreads)
                [(s % Len(From(FirstHP(h), coresForHPThreads))) + 1]
      BY <1>1, <1>2 DEF ChooseServerRank
    <3>3. QED BY <1>1, <3>1, <3>2, PickFrom
  <2> HIDE DEF r
  <2>2. r \in T!HPRanks(h) BY <2>1, HostBlocks DEF MapInv
  <2>3. T!HostOf(r) = h /\ T!IsServer(r) /\ T!IsHPServer(r)
    BY <2>2 DEF T!HPRanks, T!IsHPServer
  <2>4. T!server_getPriority(r) BY <2>1, <2>2, <2>3, PriorityOf DEF T!HPRanks, MapInv
  <2>5. QED BY <1>2, <2>3, <2>4 DEF r
<1>3. CASE k = "LP"
  <2>1. r \in Int /\ FirstLP(h) <= r /\ r < FirstLP(h) + numLPThreads
    BY <1>1, <1>3, PickFrom DEF ChooseServerRank
  <2> HIDE DEF r
  <2>2. r \in T!LPRanks(h) BY <2>1, HostBlocks DEF MapInv
  <2>3. T!HostOf(r) = h /\ T!IsServer(r) /\ ~T!IsHPServer(r)
    BY <2>2 DEF T!LPRanks, T!IsLPServer
  <2>4. ~T!server_getPriority(r) BY <2>1, <2>2, <2>3, PriorityOf DEF T!LPRanks, MapInv
  <2>5. QED BY <1>3, <2>3, <2>4 DEF r
<1>4. QED BY <1>2, <1>3

-------------------------------------------------------------------------------
(* The inductive invariant                                                   *)

\* The process holds a server that is not on its host: a client from the end of its
\* one search on, a server thread between a search and the choice of a thread.
HoldsServer == pc = "rank" \/ (pc = "ready" /\ T!IsClient(self))

Running ==
  /\ rank = numProcs /\ coresForHPThreads > 0
  /\ self \in T!Ranks
  /\ comm = "HP" \/ comm = "LP"
  /\ HoldsServer => targetServerID \in T!Servers /\ targetServerID # T!HostOf(self)

ChoiceInv ==
  /\ MapInv
  /\ seed \in Seeds /\ serverMemLoad \in Nat
  /\ IF pc = "maps" THEN targetServerRank = INVALID_INDEX ELSE Running
  /\ ReachesListener

\* What a choice must have done to keep ReachesListener
Listens(r, k, me) ==
  /\ T!IsServer(r)
  /\ T!server_getPriority(r) <=> k = "HP"
  /\ T!HostOf(r) # T!HostOf(me)

\* The layout of the job does not change once the process runs.
LEMMA SameLayout ==
  ASSUME UNCHANGED vars
  PROVE  /\ UNCHANGED args /\ rank' = rank
         /\ T!Ranks' = T!Ranks /\ T!Servers' = T!Servers /\ T!procsPerHost' = T!procsPerHost
<1>1. UNCHANGED args /\ rank' = rank BY DEF vars
<1>2. QED BY <1>1, SameArgs

LEMMA SameHostOf ==
  ASSUME UNCHANGED vars, NEW r
  PROVE  T!HostOf(r)' = T!HostOf(r)
  BY SameLayout DEF T!HostOf

LEMMA SameIsClient ==
  ASSUME UNCHANGED vars, NEW r
  PROVE  T!IsClient(r)' <=> T!IsClient(r)
  BY SameLayout DEF args, T!IsClient, T!hostOffset

LEMMA SameIsServer ==
  ASSUME UNCHANGED vars, NEW r
  PROVE  T!IsServer(r)' <=> T!IsServer(r)
  BY SameIsClient DEF T!IsServer

LEMMA SamePriority ==
  ASSUME UNCHANGED vars, NEW r
  PROVE  T!server_getPriority(r)' <=> T!server_getPriority(r)
  BY SameLayout DEF args, T!server_getPriority, T!threadID

\* Every step that leaves the maps alone keeps MapInv.
LEMMA SameMaps == MapInv /\ UNCHANGED vars => MapInv'
  BY MapInvStep

\* The process finds itself in rankMap.
LEMMA KnowsItself ==
  ASSUME MapInv, rank = numProcs, NEW r \in T!Ranks
  PROVE  /\ rankMap[r].isClient <=> T!IsClient(r)
         /\ rankMap[r].isServer <=> T!IsServer(r)
         /\ rankMap[r].hostID = T!HostOf(r)
<1>1. r < rank BY HostsFacts DEF MapInv, T!Ranks
<1>2. rankMap[r] = Entry(r) BY <1>1 DEF MapInv, RankMapOK
<1>3. QED BY <1>2 DEF Entry

\* serverMap has the host of every server, so SameHost compares hosts.
LEMMA KnowsHosts ==
  ASSUME MapInv, rank = numProcs, self \in T!Ranks, NEW h \in T!Servers
  PROVE  SameHost(h) <=> h = T!HostOf(self)
<1>1. rankMap[self].hostID = T!HostOf(self) BY KnowsItself
<1>2. /\ FirstHP(h) \in Int /\ FirstLP(h) \in Int /\ numLPThreads \in Nat \ {0}
      /\ coresForHPThreads \in Nat
  BY MapsComplete
<1>3. FirstHP(h) < rank
  <2>1. serverMap[h].LPranks = From(FirstLP(h), numLPThreads) BY MapsComplete
  <2>2. Len(serverMap[h].LPranks) # 0 BY <1>2, <2>1, FromLen
  <2>3. serverMap[h].LPranks = LPBelow(h, rank) BY DEF MapInv, ServerMapOK
  <2>4. rank \in Nat BY HostsFacts DEF MapInv
  <2>5. Clamp(rank - FirstLP(h), numLPThreads) # 0
    <3>1. Clamp(rank - FirstLP(h), numLPThreads) \in Nat BY <1>2, <2>4 DEF Clamp
    <3>2. QED BY <1>2, <2>2, <2>3, <3>1, FromLen DEF LPBelow
  <2>6. ~(rank - FirstLP(h) <= 0) BY <1>2, <2>4, <2>5 DEF Clamp
  <2>7. FirstLP(h) = FirstHP(h) + coresForHPThreads BY DEF FirstLP
  <2>8. QED BY <1>2, <2>4, <2>6, <2>7
<1>4. serverMap[h].hostID = h BY <1>3 DEF MapInv, ServerMapOK
<1>5. QED BY <1>1, <1>4 DEF SameHost

\* A new rank that listens, or the old rank, process and communicator.
LEMMA StillReaches ==
  ASSUME ReachesListener, UNCHANGED vars,
         \/ UNCHANGED <<targetServerRank, comm, self>>
         \/ Listens(targetServerRank', comm', self')
         \/ targetServerRank' = INVALID_INDEX
  PROVE  ReachesListener'
<1>1. CASE UNCHANGED <<targetServerRank, comm, self>>
  <2>1. PICK r, me : r = targetServerRank /\ me = self OBVIOUS
  <2>2. T!IsServer(r)' <=> T!IsServer(r) BY SameIsServer
  <2>3. T!server_getPriority(r)' <=> T!server_getPriority(r) BY SamePriority
  <2>4. T!HostOf(r)' = T!HostOf(r) /\ T!HostOf(me)' = T!HostOf(me) BY SameHostOf
  <2>5. QED BY <1>1, <2>1, <2>2, <2>3, <2>4 DEF ReachesListener
<1>2. CASE Listens(targetServerRank', comm', self')
  <2>1. PICK r, k, me : r = targetServerRank' /\ k = comm' /\ me = self' OBVIOUS
  <2>2. /\ T!IsServer(r) /\ T!HostOf(r) # T!HostOf(me)
        /\ T!server_getPriority(r) <=> k = "HP"
    BY <1>2, <2>1 DEF Listens
  <2>3. /\ T!IsServer(r)' /\ T!HostOf(r)' # T!HostOf(me)'
        /\ T!server_getPriority(r)' <=> k = "HP"
    <3>1. T!IsServer(r)' <=> T!IsServer(r) BY SameIsServer
    <3>2. T!server_getPriority(r)' <=> T!server_getPriority(r) BY SamePriority
    <3>3. T!HostOf(r)' = T!HostOf(r) /\ T!HostOf(me)' = T!HostOf(me) BY SameHostOf
    <3>4. QED BY <2>2, <3>1, <3>2, <3>3
  <2>4. QED BY <2>1, <2>3 DEF ReachesListener
<1>3. CASE targetServerRank' = INVALID_INDEX BY <1>3 DEF ReachesListener, INVALID_INDEX
<1>4. QED BY <1>1, <1>2, <1>3

\* The same for the rest of the process.
LEMMA StillRunning ==
  ASSUME Running, UNCHANGED vars, self' = self, comm' = "HP" \/ comm' = "LP",
         HoldsServer' => targetServerID' \in T!Servers /\ targetServerID' # T!HostOf(self)
  PROVE  Running'
<1>1. rank' = rank /\ numProcs' = numProcs /\ coresForHPThreads' = coresForHPThreads
  BY DEF vars, args
<1>2. T!Ranks' = T!Ranks /\ T!Servers' = T!Servers BY SameLayout
<1>3. PICK me : me = self OBVIOUS
<1>4. T!HostOf(me)' = T!HostOf(me) BY SameHostOf
<1>5. T!HostOf(self)' = T!HostOf(self) BY <1>3, <1>4
<1>6. QED BY <1>1, <1>2, <1>5 DEF Running

LEMMA StepBuildMaps == ChoiceInv /\ BuildMaps => ChoiceInv'
<1> SUFFICES ASSUME ChoiceInv, BuildMaps PROVE ChoiceInv' OBVIOUS
<1>1. MapInv' BY MapInvStep DEF ChoiceInv, BuildMaps
<1>2. UNCHANGED choiceVars /\ pc = "maps" BY DEF BuildMaps
<1>3. QED BY <1>1, <1>2 DEF ChoiceInv, choiceVars, ReachesListener, INVALID_INDEX

LEMMA StepStart == ChoiceInv /\ Start => ChoiceInv'
<1> SUFFICES ASSUME ChoiceInv, Start PROVE ChoiceInv' OBVIOUS
<1>1. /\ UNCHANGED vars /\ pc = "maps" /\ rank = numProcs /\ coresForHPThreads > 0
      /\ self' \in T!Ranks /\ seed' = InitialSeed(self')
      /\ UNCHANGED <<serverMemLoad, targetServerID, targetServerRank>>
  BY DEF Start
<1>2. /\ pc' = IF rankMap[self'].isClient THEN "serverID" ELSE "ready"
      /\ comm' = "HP" \/ comm' = "LP"
  BY DEF Start
<1>3. MapInv /\ targetServerRank = INVALID_INDEX BY <1>1 DEF ChoiceInv
<1>4. PICK me \in T!Ranks : me = self' BY <1>1
<1>5. seed' \in Seeds
  <2>1. me \in Int BY <1>3, HostsFacts DEF MapInv, T!Ranks
  <2>2. InitialSeed(me) \in Seeds BY <1>3, <2>1, InitialSeedType DEF MapInv, ArgsOK
  <2>3. QED BY <1>1, <1>4, <2>2
<1>6. Running'
  <2>1. rank' = rank /\ numProcs' = numProcs /\ coresForHPThreads' = coresForHPThreads
    BY <1>1 DEF vars, args
  <2>2. self' \in T!Ranks' BY <1>1, SameLayout
  <2>3. ~HoldsServer'
    <3>1. rankMap[me].isClient <=> T!IsClient(me) BY <1>1, <1>3, KnowsItself
    <3>2. T!IsClient(me)' <=> T!IsClient(me) BY <1>1, SameIsClient
    <3>3. T!IsClient(self)' => pc' = "serverID" BY <1>2, <1>4, <3>1, <3>2
    <3>4. QED BY <1>2, <3>3 DEF HoldsServer
  <2>4. QED BY <1>1, <1>2, <2>1, <2>2, <2>3 DEF Running
<1>7. MapInv' BY <1>1, <1>3, SameMaps
<1>8. ReachesListener' BY <1>1, <1>3 DEF ReachesListener, INVALID_INDEX
<1>9. pc' # "maps" BY <1>2
<1>10. serverMemLoad' \in Nat BY <1>1 DEF ChoiceInv
<1>11. QED BY <1>5, <1>6, <1>7, <1>8, <1>9, <1>10 DEF ChoiceInv

\* The four steps of a running process have this much in common.
LEMMA StepRunning ==
  ASSUME ChoiceInv, UNCHANGED <<vars, serverMemLoad, self>>, pc # "maps", pc' # "maps",
         seed' \in Seeds, comm' = "HP" \/ comm' = "LP",
         HoldsServer' => targetServerID' \in T!Servers /\ targetServerID' # T!HostOf(self),
         \/ UNCHANGED <<targetServerRank, comm>>
         \/ Listens(targetServerRank', comm', self)
  PROVE  ChoiceInv'
<1>1. UNCHANGED vars /\ self' = self /\ serverMemLoad' = serverMemLoad OBVIOUS
<1>2. MapInv' BY <1>1, SameMaps DEF ChoiceInv
<1>3. Running' BY <1>1, StillRunning DEF ChoiceInv
<1>4. ReachesListener'
  <2>1. CASE UNCHANGED <<targetServerRank, comm>> BY <1>1, <2>1, StillReaches DEF ChoiceInv
  <2>2. CASE Listens(targetServerRank', comm', self)
    <3>1. Listens(targetServerRank', comm', self') BY <1>1, <2>2
    <3>2. QED BY <1>1, <3>1, StillReaches DEF ChoiceInv
  <2>3. QED BY <2>1, <2>2
<1>5. QED BY <1>1, <1>2, <1>3, <1>4 DEF ChoiceInv

\* The guards of a running process, said of its rank.
LEMMA RunningFacts ==
  ASSUME ChoiceInv, pc # "maps"
  PROVE  /\ MapInv /\ Running /\ rank = numProcs /\ self \in T!Ranks
         /\ rankMap[self].isClient <=> T!IsClient(self)
         /\ rankMap[self].isServer <=> ~T!IsClient(self)
         /\ myRandom(seed) \in Seeds /\ myRandom(seed) \in Nat
<1>1. MapInv /\ Running /\ rank = numProcs /\ self \in T!Ranks /\ seed \in Seeds
  BY DEF ChoiceInv, Running
<1>2. /\ rankMap[self].isClient <=> T!IsClient(self)
      /\ rankMap[self].isServer <=> ~T!IsClient(self)
  BY <1>1, KnowsItself DEF T!IsServer
<1>3. myRandom(seed) \in Seeds /\ myRandom(seed) \in Nat BY <1>1, RandomType, ModulusType
<1>4. QED BY <1>1, <1>2, <1>3

LEMMA StepSearchServer == ChoiceInv /\ SearchServer => ChoiceInv'
<1> SUFFICES ASSUME ChoiceInv, SearchServer PROVE ChoiceInv' OBVIOUS
<1>1. /\ UNCHANGED <<vars, serverMemLoad, self>> /\ UNCHANGED <<targetServerRank, comm>>
      /\ pc = "serverID" /\ seed' = myRandom(seed)
  BY DEF SearchServer
<1>2. MapInv /\ Running /\ rank = numProcs /\ self \in T!Ranks /\ seed' \in Seeds /\ seed' \in Nat
  BY <1>1, RunningFacts
<1>3. PICK server : server = seed' % T!numHosts OBVIOUS
<1>4. server \in T!Servers
  <2>1. T!numHosts \in Nat \ {0} BY <1>2 DEF MapInv, ArgsOK
  <2>2. PICK s \in Nat, n \in Nat \ {0} : s = seed' /\ n = T!numHosts BY <1>2, <2>1
  <2>3. s % n \in 0 .. n - 1 BY DivRem
  <2>4. server = s % n BY <1>3, <2>2
  <2>5. QED BY <2>2, <2>3, <2>4 DEF T!Servers, T!Hosts
<1>5. SameHost(server) <=> server = T!HostOf(self) BY <1>2, <1>4, KnowsHosts
<1>6. IF SameHost(server) THEN UNCHANGED <<pc, targetServerID>>
      ELSE /\ targetServerID' = server
           /\ pc' = IF rankMap[self].isClient THEN "ready" ELSE "rank"
  BY <1>3 DEF SearchServer
<1>7. pc' # "maps" BY <1>1, <1>6
<1>8. HoldsServer' => targetServerID' \in T!Servers /\ targetServerID' # T!HostOf(self)
  <2>1. CASE SameHost(server) BY <1>1, <1>6, <2>1 DEF HoldsServer
  <2>2. CASE ~SameHost(server) BY <1>4, <1>5, <1>6, <2>2
  <2>3. QED BY <2>1, <2>2
<1>9. comm' = "HP" \/ comm' = "LP" BY <1>1, <1>2 DEF Running
<1>10. pc # "maps" BY <1>1
<1>11. QED BY <1>1, <1>2, <1>7, <1>8, <1>9, <1>10, StepRunning

\* A process that holds a server and picks one of its threads.
LEMMA PicksFarListener ==
  ASSUME MapInv, Running, HoldsServer, NEW s \in Nat, NEW k, k = "HP" \/ k = "LP"
  PROVE  Listens(ChooseServerRank(s, targetServerID, k), k, self)
<1>1. PICK h \in T!Servers : h = targetServerID BY DEF Running
<1>2. rank = numProcs /\ coresForHPThreads > 0 BY DEF Running
<1>3. h # T!HostOf(self) BY <1>1 DEF Running
<1>4. PICK r : r = ChooseServerRank(s, h, k) OBVIOUS
<1>5. /\ T!IsServer(r) /\ T!HostOf(r) = h
      /\ T!server_getPriority(r) <=> k = "HP"
  BY <1>2, <1>4, PicksListener
<1>6. QED BY <1>1, <1>3, <1>4, <1>5 DEF Listens

LEMMA StepClientRequest == ChoiceInv /\ ClientRequest => ChoiceInv'
<1> SUFFICES ASSUME ChoiceInv, ClientRequest PROVE ChoiceInv' OBVIOUS
<1>1. /\ UNCHANGED <<vars, serverMemLoad, self>> /\ UNCHANGED <<pc, targetServerID>>
      /\ pc = "ready" /\ rankMap[self].isClient /\ seed' = myRandom(seed)
      /\ comm' = "HP" \/ comm' = "LP"
      /\ targetServerRank' = ChooseServerRank(seed', targetServerID, comm')
  BY DEF ClientRequest
<1>2. /\ MapInv /\ Running /\ T!IsClient(self) /\ seed' \in Seeds /\ seed' \in Nat
  BY <1>1, RunningFacts
<1>3. HoldsServer BY <1>1, <1>2 DEF HoldsServer
<1>4. PICK s \in Nat : s = seed' BY <1>2
<1>5. PICK k : k = comm' OBVIOUS
<1>6. Listens(ChooseServerRank(s, targetServerID, k), k, self)
  BY <1>1, <1>2, <1>3, <1>5, PicksFarListener
<1>7. Listens(targetServerRank', comm', self) BY <1>1, <1>4, <1>5, <1>6
<1>8. targetServerID' \in T!Servers /\ targetServerID' # T!HostOf(self)
  BY <1>1, <1>2, <1>3 DEF Running
<1>9. pc # "maps" /\ pc' # "maps" BY <1>1
<1>10. QED BY <1>1, <1>2, <1>7, <1>8, <1>9, StepRunning

LEMMA StepServerHandle == ChoiceInv /\ ServerHandle => ChoiceInv'
<1> SUFFICES ASSUME ChoiceInv, ServerHandle PROVE ChoiceInv' OBVIOUS
<1>1. /\ UNCHANGED <<vars, serverMemLoad, self>> /\ UNCHANGED <<targetServerRank, comm>>
      /\ pc = "ready" /\ rankMap[self].isServer /\ seed' = perform_memory_task(seed)
      /\ pc' = "ready" \/ pc' = "serverID"
  BY DEF ServerHandle
<1>2. MapInv /\ Running /\ ~T!IsClient(self) BY <1>1, RunningFacts
<1>3. seed' \in Seeds
  <2>1. serverMemLoad * (2 + BYTES_TO_WRITE) \in Nat BY DEF ChoiceInv, BYTES_TO_WRITE
  <2>2. PICK n \in Nat : n = serverMemLoad * (2 + BYTES_TO_WRITE) BY <2>1
  <2>3. PICK s \in Seeds : s = seed BY DEF ChoiceInv
  <2>4. Draws(s, n) \in Seeds BY DrawsType
  <2>5. seed' = Draws(s, n) BY <1>1, <2>2, <2>3 DEF perform_memory_task
  <2>6. QED BY <2>4, <2>5
<1>4. ~HoldsServer'
  <2>1. PICK me : me = self OBVIOUS
  <2>2. T!IsClient(me)' <=> T!IsClient(me) BY <1>1, SameIsClient
  <2>3. QED BY <1>1, <1>2, <2>1, <2>2 DEF HoldsServer
<1>5. comm' = "HP" \/ comm' = "LP" BY <1>1, <1>2 DEF Running
<1>6. pc # "maps" /\ pc' # "maps" BY <1>1
<1>7. QED BY <1>1, <1>3, <1>4, <1>5, <1>6, StepRunning

LEMMA StepServerRequest == ChoiceInv /\ ServerRequest => ChoiceInv'
<1> SUFFICES ASSUME ChoiceInv, ServerRequest PROVE ChoiceInv' OBVIOUS
<1>1. /\ UNCHANGED <<vars, serverMemLoad, self>> /\ UNCHANGED <<comm, targetServerID>>
      /\ pc = "rank" /\ seed' = myRandom(seed)
      /\ pc' = "ready" \/ pc' = "serverID"
      /\ targetServerRank' = ChooseServerRank(seed', targetServerID, comm)
  BY DEF ServerRequest
<1>2. MapInv /\ Running /\ seed' \in Seeds /\ seed' \in Nat BY <1>1, RunningFacts
<1>3. HoldsServer BY <1>1 DEF HoldsServer
<1>4. comm = "HP" \/ comm = "LP" BY <1>2 DEF Running
<1>5. PICK s \in Nat : s = seed' BY <1>2
<1>6. PICK k : k = comm OBVIOUS
<1>7. Listens(ChooseServerRank(s, targetServerID, k), k, self)
  BY <1>2, <1>3, <1>4, <1>6, PicksFarListener
<1>8. Listens(targetServerRank', comm', self) BY <1>1, <1>5, <1>6, <1>7
<1>9. targetServerID' \in T!Servers /\ targetServerID' # T!HostOf(self)
  BY <1>1, <1>2, <1>3 DEF Running
<1>10. pc # "maps" /\ pc' # "maps" BY <1>1
<1>11. comm' = "HP" \/ comm' = "LP" BY <1>1, <1>4
<1>12. QED BY <1>1, <1>2, <1>8, <1>9, <1>10, <1>11, StepRunning

LEMMA StepNothing == ChoiceInv /\ UNCHANGED <<vars, choiceVars>> => ChoiceInv'
<1> SUFFICES ASSUME ChoiceInv, UNCHANGED <<vars, choiceVars>> PROVE ChoiceInv' OBVIOUS
<1>1. UNCHANGED vars /\ UNCHANGED choiceVars OBVIOUS
<1>2. UNCHANGED <<pc, self, seed, serverMemLoad, targetServerID, targetServerRank, comm>>
  BY <1>1 DEF choiceVars
<1>3. CASE pc = "maps"
  <2>1. MapInv' BY <1>1, SameMaps DEF ChoiceInv
  <2>2. QED BY <1>2, <1>3, <2>1 DEF ChoiceInv, ReachesListener, INVALID_INDEX
<1>4. CASE pc # "maps"
  <2>1. MapInv /\ Running /\ seed' \in Seeds BY <1>2, <1>4 DEF ChoiceInv
  <2>2. comm' = "HP" \/ comm' = "LP" BY <1>2, <2>1 DEF Running
  <2>3. PICK me : me = self OBVIOUS
  <2>4. T!IsClient(me)' <=> T!IsClient(me) BY <1>1, SameIsClient
  <2>5. HoldsServer' => HoldsServer BY <1>2, <2>3, <2>4 DEF HoldsServer
  <2>6. HoldsServer' => targetServerID' \in T!Servers /\ targetServerID' # T!HostOf(self)
    BY <1>2, <2>1, <2>5 DEF Running
  <2>7. QED BY <1>1, <1>2, <1>4, <2>1, <2>2, <2>6, StepRunning
<1>5. QED BY <1>3, <1>4

LEMMA ChoiceInvInit == ChoiceInit => ChoiceInv
<1> SUFFICES ASSUME ChoiceInit PROVE ChoiceInv OBVIOUS
<1>1. MapInv BY MapInvInit DEF ChoiceInit
<1>2. serverMemLoad \in Nat BY LoadsAssumption DEF ChoiceInit
<1>3. seed \in Seeds BY ModulusType DEF ChoiceInit
<1>4. pc = "maps" /\ targetServerRank = INVALID_INDEX BY DEF ChoiceInit
<1>5. QED BY <1>1, <1>2, <1>3, <1>4 DEF ChoiceInv, ReachesListener

LEMMA ChoiceInvStep == ChoiceInv /\ [ChoiceNext]_<<vars, choiceVars>> => ChoiceInv'
<1> SUFFICES ASSUME ChoiceInv, [ChoiceNext]_<<vars, choiceVars>> PROVE ChoiceInv' OBVIOUS
<1>1. CASE BuildMaps BY <1>1, StepBuildMaps
<1>2. CASE Start BY <1>2, StepStart
<1>3. CASE SearchServer BY <1>3, StepSearchServer
<1>4. CASE ClientRequest BY <1>4, StepClientRequest
<1>5. CASE ServerHandle BY <1>5, StepServerHandle
<1>6. CASE ServerRequest BY <1>6, StepServerRequest
<1>7. CASE UNCHANGED <<vars, choiceVars>> BY <1>7, StepNothing
<1>8. CASE Stop
  <2>1. UNCHANGED <<vars, choiceVars>> BY <1>8 DEF Stop
  <2>2. QED BY <2>1, StepNothing
<1>9. QED BY <1>1, <1>2, <1>3, <1>4, <1>5, <1>6, <1>7, <1>8 DEF ChoiceNext

\* What chooseServerRank and serverChooseServerRank return is, for every job and every
\* seed, a thread of another host that listens on the communicator the request goes to
\* (src/client.c:290-304, src/server.c:333-349 against 33 and 94-99).
THEOREM RequestsReachListeners == ChoiceSpec => []ReachesListener
<1>1. ChoiceInv => ReachesListener BY DEF ChoiceInv
<1>2. QED BY <1>1, ChoiceInvInit, ChoiceInvStep, PTL DEF ChoiceSpec
==============================================================================
