-------------------------- MODULE BlockingSendProofs --------------------------
(***************************************************************************)
(* No server threads wait in MPI_Send for one another, however many hosts, *)
(* clients and threads there are and whatever the network load, as long as *)
(* MPI has room for the server requests of the clients that can meet at a  *)
(* thread (EnoughRoom).  For the high priority threads that does not       *)
(* depend on the number of low priority requests.                          *)
(*                                                                         *)
(* The argument counts.  Threads that wait in a circle have filled a       *)
(* channel each, and every message in it belongs to a request some thread  *)
(* of the circle serves: a server request that thread has sent, or an ACK  *)
(* to it.  BlockInv says how many of those there can be.                   *)
(***************************************************************************)
EXTENDS BlockingSend, FiniteSetTheorems, FunctionTheorems, SequenceTheorems, TLAPS

-------------------------------------------------------------------------------
(* Finite sets                                                               *)

\* The image of a finite set under an injection that covers the other set
LEMMA SameSize ==
  ASSUME NEW S, NEW T, IsFiniteSet(S), NEW f \in [S -> T],
         \A x, y \in S : f[x] = f[y] => x = y,
         \A z \in T : \E x \in S : f[x] = z
  PROVE  IsFiniteSet(T) /\ Cardinality(T) = Cardinality(S)
<1>1. f \in Bijection(S, T) BY Fun_IsBij
<1>2. ExistsBijection(S, T) BY <1>1 DEF ExistsBijection
<1> QED BY <1>2, FS_Bijection

\* A set cannot be larger than one it is mapped into without collisions.
LEMMA NotLarger ==
  ASSUME NEW S, NEW T, IsFiniteSet(T), NEW f \in [S -> T],
         \A x, y \in S : f[x] = f[y] => x = y
  PROVE  IsFiniteSet(S) /\ Cardinality(S) <= Cardinality(T)
BY Fun_IsInj, FS_Injection

\* A set with b elements at most has numbers up to b for them.
LEMMA Numbered ==
  ASSUME NEW S, IsFiniteSet(S), NEW b \in Nat, Cardinality(S) <= b
  PROVE  \E f \in [S -> 1 .. b] : \A x, y \in S : f[x] = f[y] => x = y
<1> DEFINE I == 1 .. Cardinality(S)
<1>1. ExistsBijection(I, S) BY FS_CardinalityType
<1>2. I \subseteq 1 .. b BY FS_CardinalityType
<1> HIDE DEF I
<1>3. PICK g \in Bijection(I, S) : TRUE BY <1>1 DEF ExistsBijection
<1>4. g \in [I -> S] /\ \A z \in S : \E k \in I : g[k] = z
  BY <1>3, Fun_BijectionProperties
<1> DEFINE f == [x \in S |-> CHOOSE k \in I : g[k] = x]
<1>5. \A x \in S : f[x] \in I /\ g[f[x]] = x BY <1>4
<1>6. f \in [S -> 1 .. b] BY <1>2, <1>5
<1> HIDE DEF f
<1> QED BY <1>5, <1>6

\* The union of sets with b elements at most, one for each x of X
Union(X, G) == UNION {G[x] : x \in X}

LEMMA UnionBound ==
  ASSUME NEW X, IsFiniteSet(X), NEW G, NEW b \in Nat,
         \A x \in X : IsFiniteSet(G[x]) /\ Cardinality(G[x]) <= b
  PROVE  IsFiniteSet(Union(X, G)) /\ Cardinality(Union(X, G)) <= Cardinality(X) * b
<1> DEFINE U == Union(X, G)
           of(y) == CHOOSE x \in X : y \in G[x]
           Good(x, f) == f \in [G[x] -> 1 .. b] /\ \A y, z \in G[x] : f[y] = f[z] => y = z
           num == [x \in X |-> CHOOSE f : Good(x, f)]
           h == [y \in U |-> <<of(y), num[of(y)][y]>>]
<1>1. ASSUME NEW x \in X PROVE Good(x, num[x])
  <2>1. \E f : Good(x, f) BY Numbered
  <2>2. num[x] = CHOOSE f : Good(x, f) OBVIOUS
  <2> HIDE DEF Good, num
  <2> QED BY <2>1, <2>2
<1>2. ASSUME NEW y \in U PROVE of(y) \in X /\ y \in G[of(y)]
  BY DEF Union
<1>3. \A y \in U : num[of(y)][y] \in 1 .. b
  BY <1>1, <1>2
<1>4. h \in [U -> X \X (1 .. b)] BY <1>2, <1>3
<1>5. ASSUME NEW y \in U, NEW z \in U, h[y] = h[z] PROVE y = z
  <2> HIDE DEF num, of, U
  <2>1. of(y) = of(z) /\ num[of(y)][y] = num[of(z)][z] BY <1>5
  <2> QED BY <1>1, <1>2, <2>1
<1>6. IsFiniteSet(1 .. b) /\ Cardinality(1 .. b) = b BY FS_Interval
<1>7. IsFiniteSet(X \X (1 .. b)) /\ Cardinality(X \X (1 .. b)) = Cardinality(X) * b
  BY <1>6, FS_Product
<1> HIDE DEF h, U
<1>8. IsFiniteSet(U) /\ Cardinality(U) <= Cardinality(X \X (1 .. b))
  BY <1>4, <1>5, <1>7, NotLarger
<1> QED BY <1>7, <1>8 DEF U

-------------------------------------------------------------------------------
(* Counting in a sequence                                                    *)

Matches(seq, A) == {j \in DOMAIN seq : seq[j] \in A}

LEMMA MatchesFinite ==
  ASSUME NEW M, NEW seq \in Seq(M), NEW A
  PROVE  /\ IsFiniteSet(Matches(seq, A)) /\ Cardinality(Matches(seq, A)) \in Nat
         /\ Cardinality(Matches(seq, A)) <= Len(seq)
<1>1. Len(seq) \in Nat /\ DOMAIN seq = 1 .. Len(seq) BY LenProperties
<1>2. IsFiniteSet(1 .. Len(seq)) /\ Cardinality(1 .. Len(seq)) = Len(seq) BY <1>1, FS_Interval
<1>3. Matches(seq, A) \in SUBSET (1 .. Len(seq)) BY <1>1 DEF Matches
<1> QED BY <1>2, <1>3, FS_Subset, FS_CardinalityType

LEMMA MatchesNone ==
  ASSUME NEW A
  PROVE  Cardinality(Matches(<<>>, A)) = 0
<1>1. DOMAIN <<>> = {} OBVIOUS
<1>2. Matches(<<>>, A) = {} BY <1>1 DEF Matches
<1> QED BY <1>2, FS_EmptySet

LEMMA MatchesAppend ==
  ASSUME NEW M, NEW seq \in Seq(M), NEW m \in M, NEW A
  PROVE  Cardinality(Matches(Append(seq, m), A))
           = Cardinality(Matches(seq, A)) + (IF m \in A THEN 1 ELSE 0)
<1> DEFINE n == Len(seq)
           more == Append(seq, m)
<1>1. n \in Nat /\ DOMAIN seq = 1 .. n BY LenProperties
<1>2. /\ more \in Seq(M) /\ DOMAIN more = 1 .. n + 1
      /\ more[n + 1] = m /\ \A j \in 1 .. n : more[j] = seq[j]
  BY <1>1, AppendProperties, LenProperties
<1> HIDE DEF n, more
<1>3. n + 1 \notin Matches(seq, A) BY <1>1 DEF Matches
<1>4. CASE m \in A
  <2>1. Matches(more, A) = Matches(seq, A) \union {n + 1} BY <1>1, <1>2, <1>4 DEF Matches
  <2> QED BY <1>3, <1>4, <2>1, MatchesFinite, FS_AddElement DEF more
<1>5. CASE m \notin A
  <2>1. Matches(more, A) = Matches(seq, A) BY <1>1, <1>2, <1>5 DEF Matches
  <2>2. Cardinality(Matches(seq, A)) \in Nat BY MatchesFinite
  <2> QED BY <1>5, <2>1, <2>2 DEF more
<1> QED BY <1>4, <1>5

LEMMA MatchesTail ==
  ASSUME NEW M, NEW seq \in Seq(M), seq # <<>>, NEW A
  PROVE  Cardinality(Matches(Tail(seq), A))
           = Cardinality(Matches(seq, A)) - (IF Head(seq) \in A THEN 1 ELSE 0)
<1> DEFINE n == Len(seq)
           rest == Tail(seq)
           S == Matches(rest, A)
           T == Matches(seq, A) \ {1}
           f == [j \in S |-> j + 1]
<1>1. n \in Nat /\ n > 0 /\ DOMAIN seq = 1 .. n BY EmptySeq, LenProperties
<1>2. /\ rest \in Seq(M) /\ DOMAIN rest = 1 .. n - 1 /\ Head(seq) = seq[1]
      /\ \A j \in 1 .. n - 1 : rest[j] = seq[j + 1]
  BY <1>1, HeadTailProperties, LenProperties
<1> HIDE DEF n, rest
<1>3. f \in [S -> T] BY <1>1, <1>2 DEF Matches
<1>4. \A x, y \in S : f[x] = f[y] => x = y BY <1>1, <1>2 DEF Matches
<1>5. ASSUME NEW z \in T PROVE \E x \in S : f[x] = z
  <2>1. z \in 2 .. n /\ seq[z] \in A BY <1>1 DEF Matches
  <2>2. z - 1 \in 1 .. n - 1 /\ (z - 1) + 1 = z BY <1>1, <2>1
  <2>3. z - 1 \in S BY <1>2, <2>1, <2>2 DEF Matches
  <2> QED BY <2>2, <2>3
<1>6. IsFiniteSet(S) BY <1>2, MatchesFinite
<1> HIDE DEF S, f
<1>7. Cardinality(T) = Cardinality(S) BY <1>3, <1>4, <1>5, <1>6, SameSize
<1>8. 1 \in Matches(seq, A) <=> Head(seq) \in A BY <1>1, <1>2 DEF Matches
<1> DEFINE all == Matches(seq, A)
<1>9. IsFiniteSet(all) /\ Cardinality(all) \in Nat BY MatchesFinite
<1>10. T = all \ {1} OBVIOUS
<1>11. 1 \in all <=> Head(seq) \in A BY <1>8
<1> HIDE DEF all, T
<1>12. Cardinality(T) = Cardinality(all) - (IF Head(seq) \in A THEN 1 ELSE 0)
  <2>1. Cardinality(all \ {1}) = IF 1 \in all THEN Cardinality(all) - 1 ELSE Cardinality(all)
    BY <1>9, FS_RemoveElement
  <2> QED BY <1>9, <1>10, <1>11, <2>1
<1> QED BY <1>7, <1>12 DEF S, rest, all

\* A sequence all of whose elements match, or none
LEMMA MatchesAll ==
  ASSUME NEW M, NEW seq \in Seq(M), NEW A, \A j \in DOMAIN seq : seq[j] \in A
  PROVE  Cardinality(Matches(seq, A)) = Len(seq)
<1>1. Len(seq) \in Nat /\ DOMAIN seq = 1 .. Len(seq) BY LenProperties
<1>2. Matches(seq, A) = 1 .. Len(seq) BY <1>1 DEF Matches
<1>3. Cardinality(1 .. Len(seq)) = IF 1 > Len(seq) THEN 0 ELSE Len(seq) - 1 + 1
  BY <1>1, FS_Interval
<1> QED BY <1>1, <1>2, <1>3

LEMMA MatchesNo ==
  ASSUME NEW seq, NEW A, \A j \in DOMAIN seq : seq[j] \notin A
  PROVE  Cardinality(Matches(seq, A)) = 0
<1>1. Matches(seq, A) = {} BY DEF Matches
<1> QED BY <1>1, FS_EmptySet

LEMMA MatchesOne ==
  ASSUME NEW m, NEW A
  PROVE  Cardinality(Matches(<<m>>, A)) = IF m \in A THEN 1 ELSE 0
<1>1. DOMAIN <<m>> = {1} /\ <<m>>[1] = m OBVIOUS
<1>2. Matches(<<m>>, A) = IF m \in A THEN {1} ELSE {} BY <1>1 DEF Matches
<1> QED BY <1>2, FS_EmptySet, FS_Singleton

-------------------------------------------------------------------------------
(* What is under way, and whose it is                                        *)

Kinds == {"REQUEST", "SERVER REQUEST", "ACK"}
Messages == [kind : Kinds, to : Ranks, client : Clients]

\* The channels of a process, and the sends it still has to do
ToDo == -1
Lines == Ranks \X (-1 .. numProcs - 1)
FlowOf(n, o) == [l \in Lines |-> IF l[2] = ToDo THEN o[l[1]] ELSE n[l]]

\* The places in a flow of the messages which F names by their sender
Pending(f, F) == UNION {{l} \X Matches(f[l], F[l[1]]) : l \in Lines}
Count(f, F) == Cardinality(Pending(f, F))
HowMany(F) == Count(FlowOf(net, outbox), F)

\* What thread t waits for on behalf of client c: its server requests, then their ACKs
Awaited(t, c) ==
  [p \in Ranks |-> {m \in Messages : /\ m.client = c
                                     /\ \/ m.kind = "SERVER REQUEST" /\ p = t
                                        \/ m.kind = "ACK" /\ m.to = t}]

\* The high priority request of client c before a thread takes it, and its answer
Token(c) ==
  [p \in Ranks |-> {m \in Messages : /\ m.client = c
                                     /\ \/ m.kind = "REQUEST" /\ ~IsLPServer(m.to)
                                        \/ m.kind = "ACK" /\ m.to = c}]

\* The low priority requests of client c that no thread has taken
Untaken(c) ==
  [p \in Ranks |-> {m \in Messages : m.client = c /\ m.kind = "REQUEST" /\ IsLPServer(m.to)}]

\* What process p sends
Sent(p) ==
  {m \in Messages :
     \/ m.kind = "REQUEST" /\ m.client = p /\ IsServer(m.to) /\ HostOf(m.to) # HostOf(p)
     \/ /\ m.kind = "SERVER REQUEST" /\ IsServer(p) /\ IsServer(m.to)
        /\ (IsHPServer(p) <=> IsHPServer(m.to)) /\ HostOf(p) # HostOf(m.client)
     \/ /\ m.kind = "ACK" /\ IsServer(p)
        /\ m.to = m.client \/ (IsServer(m.to) /\ HostOf(m.to) # HostOf(m.client))}

SentTo(p, d) == {m \in Sent(p) : m.to = d}

TypeInv ==
  /\ net \in [Ranks \X Ranks -> Seq(Messages)]
  /\ outbox \in [Ranks -> Seq(Messages)]
  /\ waiting \subseteq Clients
  /\ replies \in [ServerRanks -> [Clients -> Nat]]
  /\ lpLeft \in [Clients -> Nat]

MessageInv ==
  /\ \A p, d \in Ranks : net[<<p, d>>] \in Seq(SentTo(p, d))
  /\ \A p \in Ranks : outbox[p] \in Seq(Sent(p))

\* A client that waits has its request under way, with one thread, or answered
TokenInv(c) ==
  /\ HowMany(Token(c)) # 0 => /\ HowMany(Token(c)) = 1 /\ c \in waiting
                              /\ \A t \in ServerRanks : replies[t][c] = 0
  /\ \A t \in ServerRanks : replies[t][c] # 0 =>
        /\ replies[t][c] <= serverNetLoad /\ c \in waiting
        /\ \A u \in ServerRanks : u # t => replies[u][c] = 0

\* lpLeft counts the low priority requests of a client that are still to come
UntakenInv(c) == lpLeft[c] + HowMany(Untaken(c)) <= LPReqs

\* A thread has no more messages under way than it waits for
AwaitedInv(t, c) ==
  IF IsHPServer(t) THEN HowMany(Awaited(t, c)) = replies[t][c]
  ELSE HowMany(Awaited(t, c)) <= serverNetLoad * (LPReqs - lpLeft[c] - HowMany(Untaken(c)))

CountsInv ==
  /\ \A c \in Clients : TokenInv(c) /\ UntakenInv(c)
  /\ \A t \in ServerRanks, c \in Clients : AwaitedInv(t, c)

BlockInv == TypeInv /\ MessageInv /\ CountsInv

-------------------------------------------------------------------------------
(* How a count changes with one line of the flow                             *)

LEMMA RanksAre ==
  /\ IsFiniteSet(Ranks) /\ Ranks \subseteq Nat /\ ToDo \notin Ranks
  /\ \A p \in Ranks : <<p, ToDo>> \in Lines /\ \A d \in Ranks : <<p, d>> \in Lines
<1>1. numProcs \in Nat \ {0} BY ArgumentsAssumption
<1>2. IsFiniteSet(0 .. numProcs - 1) BY <1>1, FS_Interval
<1> QED BY <1>1, <1>2 DEF Ranks, Lines, ToDo

LEMMA LinesFinite == IsFiniteSet(Lines)
<1>1. numProcs \in Nat BY ArgumentsAssumption
<1>2. IsFiniteSet(0 .. numProcs - 1) /\ IsFiniteSet(-1 .. numProcs - 1) BY <1>1, FS_Interval
<1> QED BY <1>2, FS_Product DEF Lines, Ranks

Flows(M) == [Lines -> Seq(M)]

LEMMA PendingFinite ==
  ASSUME NEW M, NEW f \in Flows(M), NEW F
  PROVE  IsFiniteSet(Pending(f, F)) /\ Count(f, F) \in Nat
<1> DEFINE part(l) == {l} \X Matches(f[l], F[l[1]])
           parts == {part(l) : l \in Lines}
<1>1. ASSUME NEW l \in Lines PROVE IsFiniteSet(part(l))
  <2>1. f[l] \in Seq(M) BY DEF Flows
  <2>2. IsFiniteSet(Matches(f[l], F[l[1]])) BY <2>1, MatchesFinite
  <2> QED BY <2>2, FS_Singleton, FS_Product
<1>2. IsFiniteSet(parts)
  <2> DEFINE h == [l \in Lines |-> part(l)]
  <2>1. h \in [Lines -> parts] OBVIOUS
  <2>2. \A T \in parts : \E l \in Lines : h[l] = T OBVIOUS
  <2> HIDE DEF h, parts
  <2>3. h \in Surjection(Lines, parts) BY <2>1, <2>2, Fun_IsSurj
  <2> QED BY <2>3, LinesFinite, FS_Surjection
<1>3. \A T \in parts : IsFiniteSet(T) BY <1>1
<1>4. Pending(f, F) = UNION parts BY DEF Pending
<1> HIDE DEF parts
<1>5. IsFiniteSet(UNION parts) BY <1>2, <1>3, FS_UNION
<1> QED BY <1>4, <1>5, FS_CardinalityType DEF Count

\* The places that are not on line l
Others(f, F, l) == UNION {{k} \X Matches(f[k], F[k[1]]) : k \in Lines \ {l}}

LEMMA OneLine ==
  ASSUME NEW M, NEW f \in Flows(M), NEW F, NEW l \in Lines
  PROVE  /\ Cardinality(Others(f, F, l)) \in Nat
         /\ Cardinality(Matches(f[l], F[l[1]])) \in Nat
         /\ Count(f, F) = Cardinality(Others(f, F, l)) + Cardinality(Matches(f[l], F[l[1]]))
<1> DEFINE m == Matches(f[l], F[l[1]])
           here == {l} \X m
           others == Others(f, F, l)
           all == Pending(f, F)
<1>1. f[l] \in Seq(M) BY DEF Flows
<1>2. IsFiniteSet(m) /\ Cardinality(m) \in Nat BY <1>1, MatchesFinite
<1>3. IsFiniteSet({l}) /\ Cardinality({l}) = 1 BY FS_Singleton
<1>4. all = others \union here BY DEF Pending, Others
<1>5. others \intersect here = {} BY DEF Others
<1>6. IsFiniteSet(all) BY PendingFinite
<1> HIDE DEF m, all, others
<1>7. IsFiniteSet(here) /\ Cardinality(here) = 1 * Cardinality(m) BY <1>2, <1>3, FS_Product
<1> HIDE DEF here
<1>8. others \in SUBSET all BY <1>4
<1>9. IsFiniteSet(others) BY <1>6, <1>8, FS_Subset
<1>10. Cardinality(others) \in Nat BY <1>9, FS_CardinalityType
<1>11. Cardinality(others \intersect here) = 0 BY <1>5, FS_EmptySet
<1>12. Cardinality(all) = Cardinality(others) + Cardinality(here) - 0
  BY <1>4, <1>7, <1>9, <1>11, FS_Union
<1> QED BY <1>2, <1>7, <1>10, <1>12 DEF Count, m, all, others

Size(seq, A) == Cardinality(Matches(seq, A))

\* Flow g is flow f with another content of line l.
SameBut(f, g, l) == \A k \in Lines \ {l} : g[k] = f[k]

\* Only the messages on the line that changes make a difference.
LEMMA LineChange ==
  ASSUME NEW M, NEW f \in Flows(M), NEW g \in Flows(M), NEW F,
         NEW l \in Lines, SameBut(f, g, l)
  PROVE  /\ Size(f[l], F[l[1]]) \in Nat /\ Size(g[l], F[l[1]]) \in Nat
         /\ Count(g, F) = Count(f, F) - Size(f[l], F[l[1]]) + Size(g[l], F[l[1]])
<1>1. Others(g, F, l) = Others(f, F, l) BY DEF Others, SameBut
<1>2. /\ Cardinality(Others(f, F, l)) \in Nat /\ Size(f[l], F[l[1]]) \in Nat
      /\ Count(f, F) = Cardinality(Others(f, F, l)) + Size(f[l], F[l[1]])
  BY OneLine DEF Size
<1>3. /\ Size(g[l], F[l[1]]) \in Nat
      /\ Count(g, F) = Cardinality(Others(g, F, l)) + Size(g[l], F[l[1]])
  BY OneLine DEF Size
<1> QED BY <1>1, <1>2, <1>3

\* A place on a line
LEMMA PlaceIsPending ==
  ASSUME NEW f, NEW F, NEW l \in Lines, NEW j \in DOMAIN f[l], f[l][j] \in F[l[1]]
  PROVE  <<l, j>> \in Pending(f, F)
BY DEF Pending, Matches

-------------------------------------------------------------------------------
(* What the actions do to a count                                            *)

Nets(M) == [Ranks \X Ranks -> Seq(M)]
Outboxes(M) == [Ranks -> Seq(M)]

OneChannel(n, n2, s, d) ==
  \A a, b \in Ranks : <<a, b>> # <<s, d>> => n2[<<a, b>>] = n[<<a, b>>]
OneProcess(o, o2, p) == \A a \in Ranks : a # p => o2[a] = o[a]

LEMMA LineIs ==
  ASSUME NEW l \in Lines
  PROVE  l = <<l[1], l[2]>> /\ l[1] \in Ranks /\ (l[2] = ToDo \/ l[2] \in Ranks)
<1>1. numProcs \in Nat BY ArgumentsAssumption
<1>2. l = <<l[1], l[2]>> /\ l[1] \in Ranks /\ l[2] \in -1 .. numProcs - 1 BY DEF Lines
<1>3. l[2] = -1 \/ l[2] \in 0 .. numProcs - 1 BY <1>1, <1>2
<1> QED BY <1>2, <1>3 DEF Ranks, ToDo

LEMMA FlowType ==
  ASSUME NEW M, NEW n \in Nets(M), NEW o \in Outboxes(M)
  PROVE  /\ FlowOf(n, o) \in Flows(M)
         /\ \A p \in Ranks : FlowOf(n, o)[<<p, ToDo>>] = o[p]
         /\ \A p, d \in Ranks : FlowOf(n, o)[<<p, d>>] = n[<<p, d>>]
<1>1. \A l \in Lines :
        l = <<l[1], l[2]>> /\ l[1] \in Ranks /\ (l[2] = ToDo \/ l[2] \in Ranks)
  BY LineIs
<1>2. ASSUME NEW l \in Lines PROVE FlowOf(n, o)[l] \in Seq(M)
  <2>1. CASE l[2] = ToDo BY <1>1, <2>1 DEF FlowOf, Outboxes
  <2>2. CASE l[2] \in Ranks
    <3>1. l \in Ranks \X Ranks BY <1>1, <2>2
    <3> QED BY <2>2, <3>1, RanksAre DEF FlowOf, Nets
  <2> QED BY <1>1, <2>1, <2>2
<1>3. FlowOf(n, o) \in Flows(M)
  <2>1. FlowOf(n, o) = [l \in Lines |-> FlowOf(n, o)[l]] BY DEF FlowOf
  <2> QED BY <1>2, <2>1 DEF Flows
<1>4. ASSUME NEW p \in Ranks PROVE FlowOf(n, o)[<<p, ToDo>>] = o[p]
  BY RanksAre DEF FlowOf
<1>5. ASSUME NEW p \in Ranks, NEW d \in Ranks PROVE FlowOf(n, o)[<<p, d>>] = n[<<p, d>>]
  BY RanksAre DEF FlowOf
<1> QED BY <1>3, <1>4, <1>5

\* A step changes one channel and the sends of one process.
LEMMA StepCounts ==
  ASSUME NEW M, NEW n \in Nets(M), NEW n2 \in Nets(M), NEW o \in Outboxes(M),
         NEW o2 \in Outboxes(M), NEW F, NEW s \in Ranks, NEW d \in Ranks, NEW p \in Ranks,
         OneChannel(n, n2, s, d), OneProcess(o, o2, p)
  PROVE  /\ Count(FlowOf(n, o), F) \in Nat /\ Count(FlowOf(n2, o2), F) \in Nat
         /\ Size(n[<<s, d>>], F[s]) \in Nat /\ Size(n2[<<s, d>>], F[s]) \in Nat
         /\ Size(o[p], F[p]) \in Nat /\ Size(o2[p], F[p]) \in Nat
         /\ Count(FlowOf(n2, o2), F)
              = Count(FlowOf(n, o), F) - Size(n[<<s, d>>], F[s]) + Size(n2[<<s, d>>], F[s])
                                       - Size(o[p], F[p]) + Size(o2[p], F[p])
<1> DEFINE f == FlowOf(n, o)
           g == FlowOf(n2, o)
           h == FlowOf(n2, o2)
           ch == <<s, d>>
           td == <<p, ToDo>>
<1>1. /\ f \in Flows(M) /\ g \in Flows(M) /\ h \in Flows(M)
      /\ f[ch] = n[ch] /\ g[ch] = n2[ch] /\ g[td] = o[p] /\ h[td] = o2[p]
  BY FlowType
<1>2. ch \in Lines /\ td \in Lines /\ ch[1] = s /\ td[1] = p BY RanksAre
<1>3. SameBut(f, g, ch) BY LineIs DEF SameBut, FlowOf, OneChannel
<1>4. SameBut(g, h, td) BY LineIs DEF SameBut, FlowOf, OneProcess
<1>5. Count(f, F) \in Nat /\ Count(g, F) \in Nat /\ Count(h, F) \in Nat BY <1>1, PendingFinite
<1>6. /\ Size(n[ch], F[s]) \in Nat /\ Size(n2[ch], F[s]) \in Nat
      /\ Size(o[p], F[p]) \in Nat /\ Size(o2[p], F[p]) \in Nat
  <2>1. n[ch] \in Seq(M) /\ n2[ch] \in Seq(M) /\ o[p] \in Seq(M) /\ o2[p] \in Seq(M)
    BY DEF Nets, Outboxes
  <2> QED BY <2>1, MatchesFinite DEF Size
<1> HIDE DEF f, g, h, ch, td
<1>7. Count(g, F) = Count(f, F) - Size(f[ch], F[ch[1]]) + Size(g[ch], F[ch[1]])
  BY <1>1, <1>2, <1>3, LineChange
<1>8. Count(h, F) = Count(g, F) - Size(g[td], F[td[1]]) + Size(h[td], F[td[1]])
  BY <1>1, <1>2, <1>4, LineChange
<1> QED BY <1>1, <1>2, <1>5, <1>6, <1>7, <1>8 DEF f, h, ch

\* A channel without its oldest message, with a new one; other sends of a process
WithoutFirst(n, s, d) == [n EXCEPT ![<<s, d>>] = Tail(@)]
WithLast(n, s, d, m) == [n EXCEPT ![<<s, d>>] = Append(@, m)]
WithSends(o, p, sends) == [o EXCEPT ![p] = sends]

\* MPI_Send returns: the message is in the channel instead of in the sends to do.
LEMMA SendMoves ==
  ASSUME NEW M, NEW n \in Nets(M), NEW o \in Outboxes(M), NEW F,
         NEW p \in Ranks, NEW d \in Ranks, o[p] # <<>>
  PROVE  Count(FlowOf(WithLast(n, p, d, Head(o[p])), WithSends(o, p, Tail(o[p]))), F)
           = Count(FlowOf(n, o), F)
<1> DEFINE m == Head(o[p])
           n2 == WithLast(n, p, d, m)
           o2 == WithSends(o, p, Tail(o[p]))
<1>1. n[<<p, d>>] \in Seq(M) /\ o[p] \in Seq(M) BY DEF Nets, Outboxes
<1>2. m \in M /\ Tail(o[p]) \in Seq(M) BY <1>1, HeadTailProperties
<1>3. Append(n[<<p, d>>], m) \in Seq(M) BY <1>1, <1>2, AppendProperties
<1>4. n2 \in Nets(M) /\ o2 \in Outboxes(M)
  BY <1>2, <1>3 DEF Nets, Outboxes, WithLast, WithSends
<1>5. n2[<<p, d>>] = Append(n[<<p, d>>], m) /\ o2[p] = Tail(o[p])
  BY DEF Nets, Outboxes, WithLast, WithSends
<1>6. OneChannel(n, n2, p, d) /\ OneProcess(o, o2, p)
  BY DEF OneChannel, OneProcess, Nets, Outboxes, WithLast, WithSends
<1>7. Size(Append(n[<<p, d>>], m), F[p]) = Size(n[<<p, d>>], F[p]) + (IF m \in F[p] THEN 1 ELSE 0)
  BY <1>1, <1>2, MatchesAppend DEF Size
<1>8. Size(Tail(o[p]), F[p]) = Size(o[p], F[p]) - (IF m \in F[p] THEN 1 ELSE 0)
  BY <1>1, MatchesTail DEF Size
<1> HIDE DEF n2, o2, m
<1>9. /\ Count(FlowOf(n, o), F) \in Nat
      /\ Size(n[<<p, d>>], F[p]) \in Nat /\ Size(o[p], F[p]) \in Nat
      /\ Count(FlowOf(n2, o2), F)
           = Count(FlowOf(n, o), F) - Size(n[<<p, d>>], F[p]) + Size(n2[<<p, d>>], F[p])
                                    - Size(o[p], F[p]) + Size(o2[p], F[p])
  BY <1>4, <1>6, StepCounts
<1>10. Count(FlowOf(n2, o2), F) = Count(FlowOf(n, o), F)
  BY <1>5, <1>7, <1>8, <1>9
<1> QED BY <1>10 DEF n2, o2, m

\* A process with nothing to send takes a message, and has new sends to do.
LEMMA ReceiveMoves ==
  ASSUME NEW M, NEW n \in Nets(M), NEW o \in Outboxes(M), NEW F,
         NEW s \in Ranks, NEW d \in Ranks, o[d] = <<>>, n[<<s, d>>] # <<>>,
         NEW sends \in Seq(M)
  PROVE  /\ Count(FlowOf(n, o), F) \in Nat /\ Size(sends, F[d]) \in Nat
         /\ Head(n[<<s, d>>]) \in F[s] => Count(FlowOf(n, o), F) > 0
         /\ Count(FlowOf(WithoutFirst(n, s, d), WithSends(o, d, sends)), F)
              = Count(FlowOf(n, o), F) - (IF Head(n[<<s, d>>]) \in F[s] THEN 1 ELSE 0)
                                       + Size(sends, F[d])
<1> DEFINE n2 == WithoutFirst(n, s, d)
           o2 == WithSends(o, d, sends)
           m == Head(n[<<s, d>>])
<1>1. n[<<s, d>>] \in Seq(M) BY DEF Nets
<1>2. Tail(n[<<s, d>>]) \in Seq(M) /\ <<>> \in Seq(M) BY <1>1, HeadTailProperties
<1>3. n2 \in Nets(M) /\ o2 \in Outboxes(M)
  BY <1>2 DEF Nets, Outboxes, WithoutFirst, WithSends
<1>4. n2[<<s, d>>] = Tail(n[<<s, d>>]) /\ o2[d] = sends
  BY DEF Nets, Outboxes, WithoutFirst, WithSends
<1>5. OneChannel(n, n2, s, d) /\ OneProcess(o, o2, d)
  BY DEF OneChannel, OneProcess, Nets, Outboxes, WithoutFirst, WithSends
<1>6. Size(Tail(n[<<s, d>>]), F[s]) = Size(n[<<s, d>>], F[s]) - (IF m \in F[s] THEN 1 ELSE 0)
  BY <1>1, MatchesTail DEF Size
<1>7. Size(o[d], F[d]) = 0 BY MatchesNone DEF Size
<1> HIDE DEF n2, o2, m
<1>8. /\ Count(FlowOf(n, o), F) \in Nat
      /\ Size(n[<<s, d>>], F[s]) \in Nat /\ Size(n2[<<s, d>>], F[s]) \in Nat
      /\ Size(o2[d], F[d]) \in Nat
      /\ Count(FlowOf(n2, o2), F)
           = Count(FlowOf(n, o), F) - Size(n[<<s, d>>], F[s]) + Size(n2[<<s, d>>], F[s])
                                    - Size(o[d], F[d]) + Size(o2[d], F[d])
  BY <1>3, <1>5, StepCounts
<1>9. Count(FlowOf(n2, o2), F)
        = Count(FlowOf(n, o), F) - (IF m \in F[s] THEN 1 ELSE 0) + Size(sends, F[d])
  BY <1>4, <1>6, <1>7, <1>8
<1>10. ASSUME m \in F[s] PROVE Count(FlowOf(n, o), F) > 0
  <2> DEFINE l == <<s, d>>
             f == FlowOf(n, o)
  <2>1. l \in Lines /\ l[1] = s BY RanksAre
  <2>2. f[l] = n[l] /\ f \in Flows(M) BY FlowType
  <2>3. 1 \in DOMAIN n[l] /\ n[l][1] \in F[s]
    <3>1. Len(n[l]) \in Nat /\ Len(n[l]) # 0 /\ DOMAIN n[l] = 1 .. Len(n[l])
      BY <1>1, EmptySeq, LenProperties
    <3>2. n[l][1] = m BY <1>1, HeadTailProperties DEF m
    <3> QED BY <1>10, <3>1, <3>2
  <2> HIDE DEF f, l
  <2>4. <<l, 1>> \in Pending(f, F) BY <2>1, <2>2, <2>3, PlaceIsPending
  <2>5. IsFiniteSet(Pending(f, F)) /\ Count(f, F) \in Nat BY <2>2, PendingFinite
  <2>6. Count(f, F) # 0 BY <2>4, <2>5, FS_EmptySet DEF Count
  <2> QED BY <2>5, <2>6 DEF f
<1> QED BY <1>4, <1>8, <1>9, <1>10 DEF n2, o2, m

LEMMA SendsCount ==
  ASSUME NEW M, NEW n \in Nets(M), NEW o \in Outboxes(M), NEW o2 \in Outboxes(M), NEW F,
         NEW p \in Ranks, OneProcess(o, o2, p)
  PROVE  /\ Count(FlowOf(n, o), F) \in Nat
         /\ Count(FlowOf(n, o2), F)
              = Count(FlowOf(n, o), F) - Size(o[p], F[p]) + Size(o2[p], F[p])
<1> DEFINE f == FlowOf(n, o)
           g == FlowOf(n, o2)
           td == <<p, ToDo>>
<1>1. td \in Lines /\ td[1] = p BY RanksAre
<1>2. f \in Flows(M) /\ g \in Flows(M) /\ f[td] = o[p] /\ g[td] = o2[p] BY FlowType
<1>3. SameBut(f, g, td) BY LineIs DEF SameBut, FlowOf, OneProcess
<1>4. Count(f, F) \in Nat BY <1>2, PendingFinite
<1> HIDE DEF f, g, td
<1>5. Count(g, F) = Count(f, F) - Size(f[td], F[td[1]]) + Size(g[td], F[td[1]])
  BY <1>1, <1>2, <1>3, LineChange
<1> QED BY <1>1, <1>2, <1>4, <1>5 DEF f, g

\* A process with nothing to send gets one message to send.
LEMMA PutMoves ==
  ASSUME NEW M, NEW n \in Nets(M), NEW o \in Outboxes(M), NEW F,
         NEW p \in Ranks, o[p] = <<>>, NEW m \in M
  PROVE  /\ Count(FlowOf(n, o), F) \in Nat
         /\ Count(FlowOf(n, WithSends(o, p, <<m>>)), F)
              = Count(FlowOf(n, o), F) + (IF m \in F[p] THEN 1 ELSE 0)
<1> DEFINE o2 == WithSends(o, p, <<m>>)
<1>1. o2 \in Outboxes(M) /\ o2[p] = <<m>> BY DEF Outboxes, WithSends
<1>2. OneProcess(o, o2, p) BY DEF OneProcess, Outboxes, WithSends
<1>3. Size(o[p], F[p]) = 0 /\ Size(<<m>>, F[p]) = IF m \in F[p] THEN 1 ELSE 0
  BY MatchesNone, MatchesOne DEF Size
<1> HIDE DEF o2
<1>4. /\ Count(FlowOf(n, o), F) \in Nat
      /\ Count(FlowOf(n, o2), F)
           = Count(FlowOf(n, o), F) - Size(o[p], F[p]) + Size(o2[p], F[p])
  BY <1>1, <1>2, SendsCount
<1>5. Count(FlowOf(n, o2), F) = Count(FlowOf(n, o), F) + (IF m \in F[p] THEN 1 ELSE 0)
  BY <1>1, <1>3, <1>4
<1> QED BY <1>4, <1>5 DEF o2

-------------------------------------------------------------------------------
(* A circle would need more messages than its threads wait for               *)

\* The clients whose requests can reach thread t
Meets(t) == {c \in Clients : HostOf(c) # HostOf(t)}

\* What a thread can wait for on behalf of one client: the client waits for its high
\* priority request, and does not for the low priority ones
Most(t) == IF IsHPServer(t) THEN serverNetLoad ELSE serverNetLoad * LPReqs

\* What a thread of T can wait for at once fits in one channel.
EnoughRoom(T) == \A t \in T : Cardinality(Meets(t)) * Most(t) <= Capacity

AwaitedPlaces(t) == [c \in Meets(t) |-> Pending(FlowOf(net, outbox), Awaited(t, c))]
Mine(t) == Union(Meets(t), AwaitedPlaces(t))

LEMMA BoundsAre == serverNetLoad \in Nat /\ Capacity \in Nat /\ LPReqs \in Nat /\ HPReqs \in Nat
BY BlockingAssumption

LEMMA FlowIs ==
  ASSUME TypeInv
  PROVE  /\ net \in Nets(Messages) /\ outbox \in Outboxes(Messages)
         /\ FlowOf(net, outbox) \in Flows(Messages)
<1>1. net \in Nets(Messages) /\ outbox \in Outboxes(Messages) BY DEF TypeInv, Nets, Outboxes
<1> QED BY <1>1, FlowType

LEMMA HowManyType ==
  ASSUME TypeInv, NEW F
  PROVE  IsFiniteSet(Pending(FlowOf(net, outbox), F)) /\ HowMany(F) \in Nat
BY FlowIs, PendingFinite DEF HowMany

LEMMA AwaitedBound ==
  ASSUME BlockInv, NEW t \in ServerRanks, NEW c \in Clients
  PROVE  HowMany(Awaited(t, c)) <= Most(t)
<1> DEFINE k == HowMany(Awaited(t, c))
           u == HowMany(Untaken(c))
<1>1. TypeInv /\ TokenInv(c) /\ UntakenInv(c) /\ AwaitedInv(t, c) BY DEF BlockInv, CountsInv
<1>2. k \in Nat /\ u \in Nat BY <1>1, HowManyType
<1>3. replies[t][c] \in Nat /\ lpLeft[c] \in Nat BY <1>1 DEF TypeInv
<1>4. \A x, y, z \in Nat : y <= z => x * y <= x * z BY SMT
<1>5. CASE IsHPServer(t)
  <2>1. k = replies[t][c] BY <1>1, <1>5 DEF AwaitedInv
  <2>2. replies[t][c] <= serverNetLoad BY <1>1, <1>3, BoundsAre DEF TokenInv
  <2> HIDE DEF k
  <2> QED BY <1>5, <2>1, <2>2 DEF k, Most
<1>6. CASE ~IsHPServer(t)
  <2> DEFINE e == LPReqs - lpLeft[c] - u
  <2>1. k <= serverNetLoad * e BY <1>1, <1>6 DEF AwaitedInv
  <2>2. lpLeft[c] + u <= LPReqs BY <1>1 DEF UntakenInv
  <2> HIDE DEF k, u
  <2>3. e \in Nat /\ e <= LPReqs BY <1>2, <1>3, <2>2, BoundsAre
  <2> HIDE DEF e
  <2>4. serverNetLoad * e <= serverNetLoad * LPReqs BY <1>4, <2>3, BoundsAre
  <2>5. PICK w \in Nat : w = serverNetLoad * LPReqs BY BoundsAre
  <2>6. PICK v \in Nat : v = serverNetLoad * e BY <2>3, BoundsAre
  <2>7. k <= w BY <1>2, <2>1, <2>4, <2>5, <2>6
  <2> QED BY <1>6, <2>5, <2>7 DEF k, Most
<1> QED BY <1>5, <1>6

LEMMA MeetsFinite ==
  ASSUME NEW t
  PROVE  IsFiniteSet(Meets(t)) /\ Cardinality(Meets(t)) \in Nat
<1>1. Meets(t) \in SUBSET Ranks BY DEF Meets, Clients
<1>2. IsFiniteSet(Meets(t)) BY <1>1, RanksAre, FS_Subset
<1> QED BY <1>2, FS_CardinalityType

LEMMA MineBound ==
  ASSUME BlockInv, NEW t \in ServerRanks, EnoughRoom({t})
  PROVE  IsFiniteSet(Mine(t)) /\ Cardinality(Mine(t)) <= Capacity
<1> DEFINE b == Most(t)
           G == AwaitedPlaces(t)
           X == Meets(t)
<1>1. b \in Nat BY BoundsAre DEF Most
<1>2. \A c \in X : IsFiniteSet(G[c]) /\ Cardinality(G[c]) <= b
  <2> TAKE c \in X
  <2>1. TypeInv /\ c \in Clients BY DEF BlockInv, Meets
  <2>2. G[c] = Pending(FlowOf(net, outbox), Awaited(t, c)) BY DEF AwaitedPlaces
  <2>3. IsFiniteSet(G[c]) BY <2>1, <2>2, HowManyType
  <2>4. HowMany(Awaited(t, c)) <= b BY <2>1, AwaitedBound
  <2> QED BY <2>2, <2>3, <2>4 DEF HowMany, Count
<1>3. IsFiniteSet(X) /\ Cardinality(X) \in Nat BY MeetsFinite
<1>4. Cardinality(X) * b <= Capacity BY DEF EnoughRoom
<1> HIDE DEF b, G, X
<1>5. IsFiniteSet(Union(X, G)) /\ Cardinality(Union(X, G)) <= Cardinality(X) * b
  BY <1>1, <1>2, <1>3, UnionBound
<1>6. IsFiniteSet(Union(X, G)) /\ Cardinality(Union(X, G)) \in Nat BY <1>5, FS_CardinalityType
<1>7. PICK w \in Nat : w = Cardinality(X) * b BY <1>1, <1>3
<1>8. Cardinality(Union(X, G)) <= Capacity BY <1>4, <1>5, <1>6, <1>7, BoundsAre
<1> QED BY <1>6, <1>8 DEF Mine, G, X

\* Every message from a server thread to a server thread is awaited by one of the two.
LEMMA SomeoneWaits ==
  ASSUME NEW p \in ServerRanks, NEW d \in ServerRanks, NEW m \in SentTo(p, d)
  PROVE  \E t \in {p, d} : m.client \in Meets(t) /\ m \in Awaited(t, m.client)[p]
<1>1. m \in Messages /\ m.client \in Clients /\ m.to = d /\ m \in Sent(p)
  BY DEF SentTo, Sent, Messages
<1>2. p \in Ranks /\ ~IsClient(p) /\ ~IsClient(d) BY DEF ServerRanks, IsServer
<1>3. IsClient(m.client) BY <1>1 DEF Clients
<1>4. CASE m.kind = "REQUEST" BY <1>1, <1>2, <1>3, <1>4 DEF Sent
<1>5. CASE m.kind = "SERVER REQUEST"
  <2>1. HostOf(p) # HostOf(m.client) BY <1>1, <1>5 DEF Sent
  <2>2. m.client \in Meets(p) BY <1>1, <2>1 DEF Meets
  <2>3. m \in Awaited(p, m.client)[p] BY <1>1, <1>2, <1>5 DEF Awaited
  <2> QED BY <2>2, <2>3
<1>6. CASE m.kind = "ACK"
  <2>1. HostOf(d) # HostOf(m.client) BY <1>1, <1>2, <1>3, <1>6 DEF Sent
  <2>2. m.client \in Meets(d) BY <1>1, <2>1 DEF Meets
  <2>3. m \in Awaited(d, m.client)[p] BY <1>1, <1>2, <1>6 DEF Awaited
  <2> QED BY <2>2, <2>3
<1>7. m.kind \in Kinds BY <1>1 DEF Messages
<1> QED BY <1>4, <1>5, <1>6, <1>7 DEF Kinds

LEMMA PlaceIsMine ==
  ASSUME TypeInv, NEW p \in ServerRanks, NEW d \in ServerRanks, NEW l \in Lines,
         l[1] = p, NEW j \in DOMAIN FlowOf(net, outbox)[l],
         FlowOf(net, outbox)[l][j] \in SentTo(p, d)
  PROVE  \E t \in {p, d} : <<l, j>> \in Mine(t)
<1> DEFINE f == FlowOf(net, outbox)
           m == f[l][j]
<1>1. PICK t \in {p, d} : m.client \in Meets(t) /\ m \in Awaited(t, m.client)[p]
  BY SomeoneWaits
<1>2. <<l, j>> \in Pending(f, Awaited(t, m.client)) BY <1>1, PlaceIsPending
<1>3. <<l, j>> \in AwaitedPlaces(t)[m.client] BY <1>1, <1>2 DEF AwaitedPlaces
<1>4. <<l, j>> \in Mine(t) BY <1>1, <1>3 DEF Mine, Union
<1> QED BY <1>1, <1>4

\* A thread of a circle has filled its channel, and has one message more.
LEMMA FullChannel ==
  ASSUME BlockInv, NEW p \in ServerRanks, Blocked(p),
         Head(outbox[p]).to \in ServerRanks
  PROVE  LET f == FlowOf(net, outbox)
             d == Head(outbox[p]).to
         IN  /\ 1 \in DOMAIN f[<<p, ToDo>>] /\ f[<<p, ToDo>>][1] \in SentTo(p, d)
             /\ \A k \in 1 .. Capacity :
                  k \in DOMAIN f[<<p, d>>] /\ f[<<p, d>>][k] \in SentTo(p, d)
<1> DEFINE f == FlowOf(net, outbox)
           d == Head(outbox[p]).to
<1>1. p \in Ranks /\ d \in Ranks BY DEF ServerRanks
<1>2. net \in Nets(Messages) /\ outbox \in Outboxes(Messages) BY FlowIs DEF BlockInv
<1>3. f[<<p, ToDo>>] = outbox[p] /\ f[<<p, d>>] = net[<<p, d>>] BY <1>1, <1>2, FlowType
<1>4. outbox[p] \in Seq(Sent(p)) /\ net[<<p, d>>] \in Seq(SentTo(p, d))
  BY <1>1 DEF BlockInv, MessageInv
<1>5. outbox[p] # <<>> /\ ~(Len(net[<<p, d>>]) < Capacity) BY DEF Blocked, Accepted
<1> HIDE DEF f, d
<1>6. 1 \in DOMAIN outbox[p] /\ Head(outbox[p]) = outbox[p][1] /\ outbox[p][1] \in Sent(p)
  BY <1>4, <1>5, EmptySeq, LenProperties, HeadTailProperties, ElementOfSeq
<1>7. outbox[p][1] \in SentTo(p, d) BY <1>6 DEF SentTo, d
<1>8. ASSUME NEW k \in 1 .. Capacity
      PROVE  k \in DOMAIN net[<<p, d>>] /\ net[<<p, d>>][k] \in SentTo(p, d)
  <2>1. Len(net[<<p, d>>]) \in Nat /\ DOMAIN net[<<p, d>>] = 1 .. Len(net[<<p, d>>])
    BY <1>4, LenProperties
  <2>2. k \in 1 .. Len(net[<<p, d>>]) BY <1>5, <2>1, BoundsAre
  <2> QED BY <1>4, <2>1, <2>2, ElementOfSeq
<1> QED BY <1>3, <1>6, <1>7, <1>8 DEF f, d

LEMMA NoCircle ==
  ASSUME BlockInv, NEW S \in SUBSET ServerRanks, EnoughRoom(S)
  PROVE  ~Circle(S)
<1> SUFFICES ASSUME S # {}, \A p \in S : Blocked(p) /\ Head(outbox[p]).to \in S
             PROVE  FALSE
  BY DEF Circle
<1> DEFINE d(p) == Head(outbox[p]).to
           f == FlowOf(net, outbox)
           K == 0 .. Capacity
           G == [t \in S |-> Mine(t)]
           U == Union(S, G)
           line(p, k) == IF k = 0 THEN <<p, ToDo>> ELSE <<p, d(p)>>
           place == [x \in S \X K |-> <<line(x[1], x[2]), IF x[2] = 0 THEN 1 ELSE x[2]>>]
<1>1. \A p \in S : /\ p \in ServerRanks /\ p \in Ranks
                   /\ d(p) \in S /\ d(p) \in ServerRanks /\ d(p) \in Ranks
  BY DEF ServerRanks
<1>2. TypeInv BY DEF BlockInv
<1>3. ASSUME NEW p \in S, NEW k \in K PROVE <<line(p, k), IF k = 0 THEN 1 ELSE k>> \in U
  <2> DEFINE l == line(p, k)
             j == IF k = 0 THEN 1 ELSE k
  <2>1. l \in Lines /\ l[1] = p BY <1>1, RanksAre
  <2>2. j \in DOMAIN f[l] /\ f[l][j] \in SentTo(p, d(p))
    <3>1. /\ 1 \in DOMAIN f[<<p, ToDo>>] /\ f[<<p, ToDo>>][1] \in SentTo(p, d(p))
          /\ \A i \in 1 .. Capacity :
               i \in DOMAIN f[<<p, d(p)>>] /\ f[<<p, d(p)>>][i] \in SentTo(p, d(p))
      BY <1>1, FullChannel
    <3> HIDE DEF f, d
    <3>2. k # 0 => k \in 1 .. Capacity BY BoundsAre
    <3> QED BY <3>1, <3>2
  <2> HIDE DEF l, j, d
  <2>3. \E t \in {p, d(p)} : <<l, j>> \in Mine(t) BY <1>1, <1>2, <2>1, <2>2, PlaceIsMine
  <2>4. \E t \in S : <<l, j>> \in G[t] BY <1>1, <2>3
  <2> QED BY <2>4 DEF Union, l, j
<1>4. place \in [S \X K -> U]
  <2> HIDE DEF line, U
  <2> QED BY <1>3
<1>5. ASSUME NEW x \in S \X K, NEW y \in S \X K, place[x] = place[y] PROVE x = y
  <2>1. x = <<x[1], x[2]>> /\ y = <<y[1], y[2]>> /\ x[2] \in Nat /\ y[2] \in Nat
    BY BoundsAre
  <2>2. /\ line(x[1], x[2]) = line(y[1], y[2])
        /\ (IF x[2] = 0 THEN 1 ELSE x[2]) = (IF y[2] = 0 THEN 1 ELSE y[2])
    <3> HIDE DEF line
    <3> QED BY <1>5
  <2>3. x[1] \in S /\ y[1] \in S OBVIOUS
  <2>4. d(x[1]) # ToDo /\ d(y[1]) # ToDo BY <1>1, <2>3, RanksAre
  <2> HIDE DEF d
  <2>5. x[1] = y[1] /\ (x[2] = 0 <=> y[2] = 0) BY <2>2, <2>4
  <2> QED BY <2>1, <2>2, <2>5
<1>6. IsFiniteSet(S) /\ Cardinality(S) \in Nat /\ Cardinality(S) # 0
  <2>1. S \in SUBSET Ranks BY <1>1
  <2>2. IsFiniteSet(S) BY <2>1, RanksAre, FS_Subset
  <2> QED BY <2>2, FS_CardinalityType, FS_EmptySet
<1>7. IsFiniteSet(U) /\ Cardinality(U) <= Cardinality(S) * Capacity
  <2>1. \A t \in S : IsFiniteSet(G[t]) /\ Cardinality(G[t]) <= Capacity
    BY <1>1, MineBound DEF EnoughRoom
  <2> HIDE DEF G
  <2> QED BY <1>6, <2>1, UnionBound, BoundsAre
<1>8. IsFiniteSet(K) /\ Cardinality(K) = Capacity + 1 BY BoundsAre, FS_Interval
<1> HIDE DEF place, U, K
<1>9. IsFiniteSet(S \X K) /\ Cardinality(S \X K) = Cardinality(S) * Cardinality(K)
  BY <1>6, <1>8, FS_Product
<1>10. Cardinality(S \X K) <= Cardinality(U) BY <1>4, <1>5, <1>7, NotLarger
<1>11. Cardinality(U) \in Nat BY <1>7, FS_CardinalityType
<1>12. PICK s \in Nat : s = Cardinality(S) /\ s # 0 BY <1>6
<1>13. s * (Capacity + 1) <= s * Capacity BY <1>7, <1>8, <1>9, <1>10, <1>11, <1>12, BoundsAre
<1>14. s * (Capacity + 1) = s * Capacity + s BY BoundsAre
<1>15. PICK w \in Nat : w = s * Capacity BY BoundsAre
<1> QED BY <1>12, <1>13, <1>14, <1>15

-------------------------------------------------------------------------------
(* The invariant holds at first, and every action keeps it                   *)

LEMMA KindsOfRank ==
  /\ ServerRanks \subseteq Ranks /\ Clients \subseteq Ranks
  /\ \A p \in ServerRanks : IsServer(p) /\ p \notin Clients
  /\ \A p \in Clients : ~IsServer(p) /\ ~IsHPServer(p) /\ ~IsLPServer(p) /\ p \notin ServerRanks
  /\ \A p \in Ranks : IsServer(p) => p \in ServerRanks /\ (IsLPServer(p) <=> ~IsHPServer(p))
BY DEF ServerRanks, Clients, IsServer, IsHPServer, IsLPServer

LEMMA SentIsMessage ==
  /\ \A p : Sent(p) \subseteq Messages /\ \A d : SentTo(p, d) \subseteq Sent(p)
  /\ \A p, seq : seq \in Seq(Sent(p)) => seq \in Seq(Messages)
<1>1. \A p : Sent(p) \subseteq Messages /\ \A d : SentTo(p, d) \subseteq Sent(p) BY DEF Sent, SentTo
<1>2. ASSUME NEW p, NEW seq \in Seq(Sent(p)) PROVE seq \in Seq(Messages)
  <2>1. Len(seq) \in Nat /\ seq = [i \in 1 .. Len(seq) |-> seq[i]] BY SeqDef, LenProperties
  <2>2. \A i \in 1 .. Len(seq) : seq[i] \in Messages BY <1>1, ElementOfSeq
  <2> QED BY <2>1, <2>2, IsASeq
<1> QED BY <1>1, <1>2

LEMMA InitKeeps ==
  ASSUME Init
  PROVE  BlockInv
<1>1. TypeInv
  <2>1. <<>> \in Seq(Messages) OBVIOUS
  <2> QED BY <2>1, BoundsAre DEF Init, TypeInv
<1>2. MessageInv
  <2>1. \A A : <<>> \in Seq(A) OBVIOUS
  <2> QED BY <2>1 DEF Init, MessageInv
<1>3. ASSUME NEW F PROVE HowMany(F) = 0
  <2> DEFINE f == FlowOf(net, outbox)
  <2>1. \A l \in Lines : f[l] = <<>>
    <3> TAKE l \in Lines
    <3>1. l = <<l[1], l[2]>> /\ l[1] \in Ranks /\ (l[2] = ToDo \/ l[2] \in Ranks) BY LineIs
    <3> QED BY <3>1 DEF Init, FlowOf
  <2>2. DOMAIN <<>> = {} OBVIOUS
  <2> HIDE DEF f
  <2>3. \A l \in Lines : Matches(f[l], F[l[1]]) = {} BY <2>1, <2>2 DEF Matches
  <2>4. Pending(f, F) = {} BY <2>3 DEF Pending
  <2> QED BY <2>4, FS_EmptySet DEF HowMany, Count, f
<1>4. CountsInv
  <2>1. \A t \in ServerRanks, c \in Clients : replies[t][c] = 0 BY DEF Init
  <2>2. \A c \in Clients : lpLeft[c] = LPReqs BY DEF Init
  <2>3. serverNetLoad * (LPReqs - LPReqs - 0) = 0 BY BoundsAre
  <2> QED BY <1>3, <2>1, <2>2, <2>3, BoundsAre
           DEF CountsInv, TokenInv, UntakenInv, AwaitedInv
<1> QED BY <1>1, <1>2, <1>4 DEF BlockInv

LEMMA StutterKeeps ==
  ASSUME BlockInv, UNCHANGED vars
  PROVE  BlockInv'
BY DEF BlockInv, CountsInv, TypeInv, MessageInv, TokenInv, UntakenInv, AwaitedInv, HowMany, vars

\* A process without sends gets some.
LEMMA OutboxPut ==
  ASSUME TypeInv, MessageInv, NEW p \in Ranks, NEW sends \in Seq(Sent(p)),
         outbox' = [outbox EXCEPT ![p] = sends]
  PROVE  /\ outbox' \in [Ranks -> Seq(Messages)]
         /\ \A q \in Ranks : outbox'[q] \in Seq(Sent(q))
<1>1. sends \in Seq(Messages) BY SentIsMessage
<1>2. outbox' \in [Ranks -> Seq(Messages)] BY <1>1 DEF TypeInv
<1>3. ASSUME NEW q \in Ranks PROVE outbox'[q] \in Seq(Sent(q))
  <2>1. outbox'[q] = IF q = p THEN sends ELSE outbox[q] BY DEF TypeInv
  <2>2. outbox[q] \in Seq(Sent(q)) BY DEF MessageInv
  <2> QED BY <2>1, <2>2
<1> QED BY <1>2, <1>3

\* A message is taken from a channel.
LEMMA NetTail ==
  ASSUME TypeInv, MessageInv, NEW s \in Ranks, NEW d \in Ranks, net[<<s, d>>] # <<>>,
         net' = [net EXCEPT ![<<s, d>>] = Tail(@)]
  PROVE  /\ Head(net[<<s, d>>]) \in SentTo(s, d)
         /\ net' \in [Ranks \X Ranks -> Seq(Messages)]
         /\ \A p, q \in Ranks : net'[<<p, q>>] \in Seq(SentTo(p, q))
<1>1. net[<<s, d>>] \in Seq(SentTo(s, d)) BY DEF MessageInv
<1>2. net[<<s, d>>] \in Seq(Messages) BY DEF TypeInv
<1>3. Head(net[<<s, d>>]) \in SentTo(s, d) /\ Tail(net[<<s, d>>]) \in Seq(SentTo(s, d))
  BY <1>1, HeadTailProperties
<1>4. Tail(net[<<s, d>>]) \in Seq(Messages) BY <1>2, HeadTailProperties
<1>5. net' \in [Ranks \X Ranks -> Seq(Messages)] BY <1>4 DEF TypeInv
<1>6. ASSUME NEW p \in Ranks, NEW q \in Ranks PROVE net'[<<p, q>>] \in Seq(SentTo(p, q))
  <2>1. CASE <<p, q>> = <<s, d>>
    <3>1. net'[<<s, d>>] = Tail(net[<<s, d>>]) BY DEF TypeInv
    <3>2. p = s /\ q = d BY <2>1
    <3> QED BY <1>3, <3>1, <3>2
  <2>2. CASE <<p, q>> # <<s, d>>
    <3>1. net'[<<p, q>>] = net[<<p, q>>] BY <2>2 DEF TypeInv
    <3> QED BY <3>1 DEF MessageInv
  <2> QED BY <2>1, <2>2
<1> QED BY <1>3, <1>5, <1>6

\* What every step in which a process takes a message does
Taken(s, d, sends) ==
  /\ net[<<s, d>>] # <<>> /\ outbox[d] = <<>>
  /\ net' = [net EXCEPT ![<<s, d>>] = Tail(@)]
  /\ outbox' = [outbox EXCEPT ![d] = sends]

TakenCount(s, d, sends, F) ==
  /\ HowMany(F) \in Nat /\ Size(sends, F[d]) \in Nat
  /\ Head(net[<<s, d>>]) \in F[s] => HowMany(F) > 0
  /\ HowMany(F)' = HowMany(F) - (IF Head(net[<<s, d>>]) \in F[s] THEN 1 ELSE 0)
                              + Size(sends, F[d])

LEMMA TakenKeeps ==
  ASSUME TypeInv, MessageInv, NEW s \in Ranks, NEW d \in Ranks,
         NEW sends \in Seq(Sent(d)), Taken(s, d, sends)
  PROVE  /\ Head(net[<<s, d>>]) \in SentTo(s, d)
         /\ net' \in [Ranks \X Ranks -> Seq(Messages)]
         /\ outbox' \in [Ranks -> Seq(Messages)]
         /\ MessageInv'
<1>1. /\ Head(net[<<s, d>>]) \in SentTo(s, d)
      /\ net' \in [Ranks \X Ranks -> Seq(Messages)]
      /\ \A p, q \in Ranks : net'[<<p, q>>] \in Seq(SentTo(p, q))
  BY NetTail DEF Taken
<1>2. /\ outbox' \in [Ranks -> Seq(Messages)]
      /\ \A q \in Ranks : outbox'[q] \in Seq(Sent(q))
  BY OutboxPut DEF Taken
<1> QED BY <1>1, <1>2 DEF MessageInv

LEMMA TakenCounts ==
  ASSUME TypeInv, NEW s \in Ranks, NEW d \in Ranks,
         NEW sends \in Seq(Messages), Taken(s, d, sends), NEW F
  PROVE  TakenCount(s, d, sends, F)
<1>1. net \in Nets(Messages) /\ outbox \in Outboxes(Messages) BY FlowIs
<1>2. net[<<s, d>>] # <<>> /\ outbox[d] = <<>> BY DEF Taken
<1>3. /\ Count(FlowOf(net, outbox), F) \in Nat /\ Size(sends, F[d]) \in Nat
      /\ Head(net[<<s, d>>]) \in F[s] => Count(FlowOf(net, outbox), F) > 0
      /\ Count(FlowOf(WithoutFirst(net, s, d), WithSends(outbox, d, sends)), F)
           = Count(FlowOf(net, outbox), F) - (IF Head(net[<<s, d>>]) \in F[s] THEN 1 ELSE 0)
                                           + Size(sends, F[d])
  BY <1>1, <1>2, ReceiveMoves
<1>4. net' = WithoutFirst(net, s, d) /\ outbox' = WithSends(outbox, d, sends)
  BY DEF Taken, WithoutFirst, WithSends
<1>5. HowMany(F)' = Count(FlowOf(WithoutFirst(net, s, d), WithSends(outbox, d, sends)), F)
  BY <1>4 DEF HowMany
<1> QED BY <1>3, <1>5 DEF TakenCount, HowMany

\* What every step in which a client creates a request does
LEMMA PutKeeps ==
  ASSUME TypeInv, MessageInv, NEW p \in Ranks, NEW m \in Sent(p), outbox[p] = <<>>,
         net' = net, outbox' = [outbox EXCEPT ![p] = <<m>>]
  PROVE  /\ outbox' \in [Ranks -> Seq(Messages)] /\ MessageInv'
         /\ \A F : HowMany(F) \in Nat
                   /\ HowMany(F)' = HowMany(F) + (IF m \in F[p] THEN 1 ELSE 0)
<1>1. <<m>> \in Seq(Sent(p)) /\ m \in Messages BY SentIsMessage
<1>2. /\ outbox' \in [Ranks -> Seq(Messages)]
      /\ \A q \in Ranks : outbox'[q] \in Seq(Sent(q))
  BY <1>1, OutboxPut
<1>3. MessageInv' BY <1>2 DEF MessageInv
<1>4. net \in Nets(Messages) /\ outbox \in Outboxes(Messages) BY FlowIs
<1>5. ASSUME NEW F
      PROVE  /\ HowMany(F) \in Nat
             /\ HowMany(F)' = HowMany(F) + (IF m \in F[p] THEN 1 ELSE 0)
  <2>1. /\ Count(FlowOf(net, outbox), F) \in Nat
        /\ Count(FlowOf(net, WithSends(outbox, p, <<m>>)), F)
             = Count(FlowOf(net, outbox), F) + (IF m \in F[p] THEN 1 ELSE 0)
    BY <1>1, <1>4, PutMoves
  <2>2. outbox' = WithSends(outbox, p, <<m>>) BY DEF WithSends
  <2> QED BY <2>1, <2>2 DEF HowMany
<1> QED BY <1>2, <1>3, <1>5

LEMMA SendReturnsKeeps ==
  ASSUME BlockInv, NEW p \in Ranks, SendReturns(p)
  PROVE  BlockInv'
<1> DEFINE m == Head(outbox[p])
<1>1. TypeInv /\ MessageInv /\ CountsInv BY DEF BlockInv
<1>2. net \in Nets(Messages) /\ outbox \in Outboxes(Messages) BY <1>1, FlowIs
<1>3. outbox[p] \in Seq(Sent(p)) /\ outbox[p] # <<>> BY <1>1 DEF MessageInv, SendReturns
<1>4. m \in Sent(p) /\ Tail(outbox[p]) \in Seq(Sent(p)) BY <1>3, HeadTailProperties
<1>5. m \in Messages /\ m.to \in Ranks /\ m \in SentTo(p, m.to)
  BY <1>4, SentIsMessage DEF Messages, SentTo
<1>6. net' = WithLast(net, p, m.to, m) /\ outbox' = WithSends(outbox, p, Tail(outbox[p]))
  BY DEF SendReturns, WithLast, WithSends
<1>7. UNCHANGED <<waiting, replies, hpLeft, lpLeft>> BY DEF SendReturns
<1> HIDE DEF m
<1>8. ASSUME NEW F PROVE HowMany(F)' = HowMany(F)
  <2>1. Count(FlowOf(WithLast(net, p, m.to, m), WithSends(outbox, p, Tail(outbox[p]))), F)
          = Count(FlowOf(net, outbox), F)
    BY <1>2, <1>3, <1>5, SendMoves DEF m
  <2> QED BY <1>6, <2>1 DEF HowMany
<1>9. /\ outbox' \in [Ranks -> Seq(Messages)]
      /\ \A q \in Ranks : outbox'[q] \in Seq(Sent(q))
  <2>1. outbox' = [outbox EXCEPT ![p] = Tail(outbox[p])] BY <1>6 DEF WithSends
  <2> QED BY <1>1, <1>4, <2>1, OutboxPut
<1>10. ASSUME NEW a \in Ranks, NEW b \in Ranks PROVE net'[<<a, b>>] \in Seq(SentTo(a, b))
  <2>1. CASE <<a, b>> = <<p, m.to>>
    <3>1. net'[<<a, b>>] = Append(net[<<a, b>>], m) BY <1>2, <1>6, <2>1 DEF WithLast, Nets
    <3>2. net[<<a, b>>] \in Seq(SentTo(a, b)) BY <1>1 DEF MessageInv
    <3>3. m \in SentTo(a, b) BY <1>5, <2>1
    <3> QED BY <3>1, <3>2, <3>3, AppendProperties
  <2>2. CASE <<a, b>> # <<p, m.to>>
    <3>1. net'[<<a, b>>] = net[<<a, b>>] BY <1>2, <1>6, <2>2 DEF WithLast, Nets
    <3> QED BY <1>1, <3>1 DEF MessageInv
  <2> QED BY <2>1, <2>2
<1>11. net' \in [Ranks \X Ranks -> Seq(Messages)]
  <2>1. net[<<p, m.to>>] \in Seq(Messages) BY <1>2, <1>5 DEF Nets
  <2>2. Append(net[<<p, m.to>>], m) \in Seq(Messages) BY <1>5, <2>1, AppendProperties
  <2> QED BY <1>2, <1>6, <2>2 DEF WithLast, Nets
<1>12. TypeInv' BY <1>1, <1>7, <1>9, <1>11 DEF TypeInv
<1>13. MessageInv' BY <1>9, <1>10 DEF MessageInv
<1>14. CountsInv'
  BY <1>1, <1>7, <1>8 DEF CountsInv, TokenInv, UntakenInv, AwaitedInv
<1> QED BY <1>12, <1>13, <1>14 DEF BlockInv

\* A request of client c is nobody else's, and of one kind.
LEMMA RequestIsOf ==
  ASSUME NEW c \in Clients, NEW d \in ServerRanks, HostOf(d) # HostOf(c)
  PROVE  LET m == Send("REQUEST", d, c) IN
         /\ m \in Sent(c) /\ m \in Messages
         /\ \A k \in Clients : m \in Token(k)[c] <=> k = c /\ ~IsLPServer(d)
         /\ \A k \in Clients : m \in Untaken(k)[c] <=> k = c /\ IsLPServer(d)
         /\ \A t \in ServerRanks, k \in Clients : m \notin Awaited(t, k)[c]
<1> DEFINE m == Send("REQUEST", d, c)
<1>1. m.kind = "REQUEST" /\ m.to = d /\ m.client = c BY DEF Send
<1>2. c \in Ranks /\ d \in Ranks /\ IsServer(d) BY KindsOfRank
<1>3. m \in Messages BY <1>2 DEF Messages, Send, Kinds
<1> HIDE DEF m
<1>4. m \in Sent(c) BY <1>1, <1>2, <1>3 DEF Sent
<1>5. \A k \in Clients : m \in Token(k)[c] <=> k = c /\ ~IsLPServer(d)
  BY <1>1, <1>2, <1>3 DEF Token
<1>6. \A k \in Clients : m \in Untaken(k)[c] <=> k = c /\ IsLPServer(d)
  BY <1>1, <1>2, <1>3 DEF Untaken
<1>7. \A t \in ServerRanks, k \in Clients : m \notin Awaited(t, k)[c]
  BY <1>1, <1>2, <1>3 DEF Awaited
<1> QED BY <1>3, <1>4, <1>5, <1>6, <1>7 DEF m

LEMMA ClientLPReqKeeps ==
  ASSUME BlockInv, NEW c \in Clients, ClientLPReq(c)
  PROVE  BlockInv'
<1>1. TypeInv /\ MessageInv /\ CountsInv /\ c \in Ranks BY KindsOfRank DEF BlockInv
<1>0. PICK h \in Hosts \ {HostOf(c)} : \E d \in LPRanks(h) :
        outbox' = [outbox EXCEPT ![c] = <<Send("REQUEST", d, c)>>]
  BY DEF ClientLPReq
<1>2. PICK d \in LPRanks(h) : outbox' = [outbox EXCEPT ![c] = <<Send("REQUEST", d, c)>>]
  BY <1>0
<1>3. d \in ServerRanks /\ IsLPServer(d) /\ HostOf(d) # HostOf(c)
  BY <1>2 DEF LPRanks, IsLPServer, ServerRanks
<1> DEFINE m == Send("REQUEST", d, c)
<1>4. /\ m \in Sent(c)
      /\ \A k \in Clients : m \notin Token(k)[c]
      /\ \A k \in Clients : m \in Untaken(k)[c] <=> k = c
      /\ \A t \in ServerRanks, k \in Clients : m \notin Awaited(t, k)[c]
  BY <1>3, RequestIsOf
<1> HIDE DEF m
<1>5. /\ outbox[c] = <<>> /\ net' = net /\ lpLeft[c] > 0
      /\ lpLeft' = [lpLeft EXCEPT ![c] = @ - 1] /\ UNCHANGED <<waiting, replies>>
  BY DEF ClientLPReq, Idle
<1>6. /\ outbox' \in [Ranks -> Seq(Messages)] /\ MessageInv'
      /\ \A F : HowMany(F) \in Nat /\ HowMany(F)' = HowMany(F) + (IF m \in F[c] THEN 1 ELSE 0)
  BY <1>1, <1>2, <1>4, <1>5, PutKeeps DEF m
<1>7. /\ lpLeft' \in [Clients -> Nat]
      /\ \A k \in Clients : lpLeft'[k] = (IF k = c THEN lpLeft[k] - 1 ELSE lpLeft[k])
      /\ \A k \in Clients : lpLeft[k] \in Nat
  BY <1>1, <1>5 DEF TypeInv
<1>8. TypeInv' BY <1>1, <1>5, <1>6, <1>7 DEF TypeInv
<1>9. ASSUME NEW k \in Clients PROVE TokenInv(k)' /\ UntakenInv(k)'
  <2>1. HowMany(Token(k))' = HowMany(Token(k)) BY <1>4, <1>6
  <2>2. /\ HowMany(Untaken(k)) \in Nat
        /\ HowMany(Untaken(k))' = HowMany(Untaken(k)) + (IF k = c THEN 1 ELSE 0)
    BY <1>4, <1>6
  <2>3. TokenInv(k) /\ UntakenInv(k) BY <1>1 DEF CountsInv
  <2>4. TokenInv(k)' BY <1>5, <2>1, <2>3 DEF TokenInv
  <2>5. UntakenInv(k)' BY <1>7, <2>2, <2>3, BoundsAre DEF UntakenInv
  <2> QED BY <2>4, <2>5
<1>10. ASSUME NEW t \in ServerRanks, NEW k \in Clients PROVE AwaitedInv(t, k)'
  <2>1. HowMany(Awaited(t, k))' = HowMany(Awaited(t, k)) BY <1>4, <1>6
  <2>2. /\ HowMany(Untaken(k)) \in Nat
        /\ HowMany(Untaken(k))' = HowMany(Untaken(k)) + (IF k = c THEN 1 ELSE 0)
    BY <1>4, <1>6
  <2>3. AwaitedInv(t, k) BY <1>1 DEF CountsInv
  <2>4. LPReqs - lpLeft'[k] - HowMany(Untaken(k))' = LPReqs - lpLeft[k] - HowMany(Untaken(k))
    BY <1>7, <2>2, BoundsAre
  <2> QED BY <1>5, <2>1, <2>3, <2>4 DEF AwaitedInv
<1>11. CountsInv' BY <1>9, <1>10 DEF CountsInv
<1> QED BY <1>6, <1>8, <1>11 DEF BlockInv

LEMMA ClientHPReqKeeps ==
  ASSUME BlockInv, NEW c \in Clients, ClientHPReq(c)
  PROVE  BlockInv'
<1>1. TypeInv /\ MessageInv /\ CountsInv /\ c \in Ranks BY KindsOfRank DEF BlockInv
<1>0. PICK h \in Hosts \ {HostOf(c)} : \E d \in HPRanks(h) :
        outbox' = [outbox EXCEPT ![c] = <<Send("REQUEST", d, c)>>]
  BY DEF ClientHPReq
<1>2. PICK d \in HPRanks(h) : outbox' = [outbox EXCEPT ![c] = <<Send("REQUEST", d, c)>>]
  BY <1>0
<1>3. d \in ServerRanks /\ ~IsLPServer(d) /\ HostOf(d) # HostOf(c)
  BY <1>2 DEF HPRanks, IsHPServer, IsLPServer, ServerRanks
<1> DEFINE m == Send("REQUEST", d, c)
<1>4. /\ m \in Sent(c)
      /\ \A k \in Clients : m \in Token(k)[c] <=> k = c
      /\ \A k \in Clients : m \notin Untaken(k)[c]
      /\ \A t \in ServerRanks, k \in Clients : m \notin Awaited(t, k)[c]
  BY <1>3, RequestIsOf
<1> HIDE DEF m
<1>5. /\ outbox[c] = <<>> /\ net' = net /\ c \notin waiting
      /\ waiting' = waiting \union {c} /\ UNCHANGED <<replies, lpLeft>>
  BY DEF ClientHPReq, Idle
<1>6. /\ outbox' \in [Ranks -> Seq(Messages)] /\ MessageInv'
      /\ \A F : HowMany(F) \in Nat /\ HowMany(F)' = HowMany(F) + (IF m \in F[c] THEN 1 ELSE 0)
  BY <1>1, <1>2, <1>4, <1>5, PutKeeps DEF m
<1>7. TypeInv' BY <1>1, <1>5, <1>6 DEF TypeInv
<1>8. ASSUME NEW k \in Clients PROVE TokenInv(k)' /\ UntakenInv(k)'
  <2>1. HowMany(Token(k))' = HowMany(Token(k)) + (IF k = c THEN 1 ELSE 0) BY <1>4, <1>6
  <2>2. HowMany(Untaken(k))' = HowMany(Untaken(k)) BY <1>4, <1>6
  <2>3. TokenInv(k) /\ UntakenInv(k) /\ HowMany(Token(k)) \in Nat BY <1>1, <1>6 DEF CountsInv
  <2>4. CASE k = c
    <3>1. HowMany(Token(k)) = 0 /\ \A t \in ServerRanks : replies[t][k] = 0
      BY <1>5, <2>3, <2>4 DEF TokenInv
    <3>2. HowMany(Token(k))' = 1 /\ k \in waiting' /\ \A t \in ServerRanks : replies'[t][k] = 0
      BY <1>5, <2>1, <2>4, <3>1
    <3> QED BY <1>5, <2>2, <2>3, <3>2 DEF TokenInv, UntakenInv
  <2>5. CASE k # c
    <3>1. HowMany(Token(k))' = HowMany(Token(k)) /\ (k \in waiting' <=> k \in waiting)
      BY <1>5, <2>1, <2>3, <2>5
    <3> QED BY <1>5, <2>2, <2>3, <3>1 DEF TokenInv, UntakenInv
  <2> QED BY <2>4, <2>5
<1>9. ASSUME NEW t \in ServerRanks, NEW k \in Clients PROVE AwaitedInv(t, k)'
  <2>1. /\ HowMany(Awaited(t, k))' = HowMany(Awaited(t, k))
        /\ HowMany(Untaken(k))' = HowMany(Untaken(k))
    BY <1>4, <1>6
  <2>2. AwaitedInv(t, k) BY <1>1 DEF CountsInv
  <2> QED BY <1>5, <2>1, <2>2 DEF AwaitedInv
<1>10. CountsInv' BY <1>8, <1>9 DEF CountsInv
<1> QED BY <1>6, <1>7, <1>10 DEF BlockInv

\* An ACK of thread d to thread or client q about client c
LEMMA AckIsOf ==
  ASSUME NEW d \in ServerRanks, NEW q \in Ranks, NEW c \in Clients,
         q = c \/ (q \in ServerRanks /\ HostOf(q) # HostOf(c))
  PROVE  LET m == Send("ACK", q, c) IN
         /\ m \in Sent(d) /\ m \in Messages
         /\ \A k \in Clients : m \in Token(k)[d] <=> k = c /\ q = c
         /\ \A k \in Clients : m \notin Untaken(k)[d]
         /\ \A t \in ServerRanks, k \in Clients : m \in Awaited(t, k)[d] <=> k = c /\ t = q
<1> DEFINE m == Send("ACK", q, c)
<1>1. m.kind = "ACK" /\ m.to = q /\ m.client = c BY DEF Send
<1>2. /\ c \in Ranks /\ d \in Ranks /\ IsServer(d)
      /\ q \in ServerRanks => IsServer(q) /\ q \notin Clients
  BY KindsOfRank
<1>3. m \in Messages BY <1>2 DEF Messages, Send, Kinds
<1> HIDE DEF m
<1>4. m \in Sent(d) BY <1>1, <1>2, <1>3 DEF Sent
<1>5. \A k \in Clients : m \in Token(k)[d] <=> k = c /\ q = c
  BY <1>1, <1>2, <1>3 DEF Token
<1>6. \A k \in Clients : m \notin Untaken(k)[d]
  BY <1>1, <1>2, <1>3 DEF Untaken
<1>7. \A t \in ServerRanks, k \in Clients : m \in Awaited(t, k)[d] <=> k = c /\ t = q
  BY <1>1, <1>2, <1>3 DEF Awaited
<1> QED BY <1>3, <1>4, <1>5, <1>6, <1>7 DEF m

LEMMA NoSends ==
  ASSUME NEW F, NEW d
  PROVE  Size(<<>>, F[d]) = 0
BY MatchesNone DEF Size

LEMMA OneSend ==
  ASSUME NEW F, NEW d, NEW m
  PROVE  Size(<<m>>, F[d]) = IF m \in F[d] THEN 1 ELSE 0
BY MatchesOne DEF Size

LEMMA ClientReplyKeeps ==
  ASSUME BlockInv, NEW c \in Clients, NEW s \in ServerRanks, ClientReply(c, s)
  PROVE  BlockInv'
<1> DEFINE m == Head(net[<<s, c>>])
<1>1. /\ TypeInv /\ MessageInv /\ CountsInv /\ c \in Ranks /\ s \in Ranks
      /\ IsServer(s) /\ c \notin ServerRanks /\ s \notin Clients /\ ~IsServer(c)
  BY KindsOfRank DEF BlockInv
<1>2. /\ net[<<s, c>>] # <<>> /\ outbox[c] = <<>> /\ c \in waiting
      /\ net' = [net EXCEPT ![<<s, c>>] = Tail(@)] /\ waiting' = waiting \ {c}
      /\ UNCHANGED <<outbox, replies, hpLeft, lpLeft>>
  BY DEF ClientReply
<1>3. outbox' = [outbox EXCEPT ![c] = <<>>] BY <1>1, <1>2 DEF TypeInv
<1>4. Taken(s, c, <<>>) BY <1>2, <1>3 DEF Taken
<1>5. <<>> \in Seq(Sent(c)) /\ <<>> \in Seq(Messages) OBVIOUS
<1>6. /\ m \in SentTo(s, c) /\ net' \in [Ranks \X Ranks -> Seq(Messages)]
      /\ outbox' \in [Ranks -> Seq(Messages)] /\ MessageInv'
  BY <1>1, <1>4, <1>5, TakenKeeps
<1>7. ASSUME NEW F
      PROVE  /\ HowMany(F) \in Nat
             /\ m \in F[s] => HowMany(F) > 0
             /\ HowMany(F)' = HowMany(F) - (IF m \in F[s] THEN 1 ELSE 0)
  <2>1. TakenCount(s, c, <<>>, F) BY <1>1, <1>4, <1>5, TakenCounts
  <2>2. Size(<<>>, F[c]) = 0 BY NoSends
  <2> QED BY <2>1, <2>2 DEF TakenCount
<1> HIDE DEF m
<1>8. m \in Messages /\ m.kind = "ACK" /\ m.to = c /\ m.client = c
  BY <1>1, <1>6 DEF SentTo, Sent, Messages, Kinds
<1>9. /\ \A k \in Clients : m \in Token(k)[s] <=> k = c
      /\ \A k \in Clients : m \notin Untaken(k)[s]
      /\ \A t \in ServerRanks, k \in Clients : m \notin Awaited(t, k)[s]
  BY <1>1, <1>8 DEF Token, Untaken, Awaited
<1>10. TypeInv' BY <1>1, <1>2, <1>6 DEF TypeInv
<1>11. ASSUME NEW k \in Clients PROVE TokenInv(k)' /\ UntakenInv(k)'
  <2>1. /\ HowMany(Token(k)) \in Nat /\ (k = c => HowMany(Token(k)) > 0)
        /\ HowMany(Token(k))' = HowMany(Token(k)) - (IF k = c THEN 1 ELSE 0)
    BY <1>7, <1>9
  <2>2. HowMany(Untaken(k))' = HowMany(Untaken(k)) BY <1>7, <1>9
  <2>3. TokenInv(k) /\ UntakenInv(k) BY <1>1 DEF CountsInv
  <2>4. CASE k = c
    <3>1. HowMany(Token(k))' = 0 /\ \A t \in ServerRanks : replies[t][k] = 0
      BY <2>1, <2>3, <2>4 DEF TokenInv
    <3> QED BY <1>2, <2>2, <2>3, <3>1 DEF TokenInv, UntakenInv
  <2>5. CASE k # c
    <3>1. HowMany(Token(k))' = HowMany(Token(k)) /\ (k \in waiting' <=> k \in waiting)
      BY <1>2, <2>1, <2>5
    <3> QED BY <1>2, <2>2, <2>3, <3>1 DEF TokenInv, UntakenInv
  <2> QED BY <2>4, <2>5
<1>12. ASSUME NEW t \in ServerRanks, NEW k \in Clients PROVE AwaitedInv(t, k)'
  <2>1. /\ HowMany(Awaited(t, k))' = HowMany(Awaited(t, k))
        /\ HowMany(Untaken(k))' = HowMany(Untaken(k))
    BY <1>7, <1>9
  <2>2. AwaitedInv(t, k) BY <1>1 DEF CountsInv
  <2> QED BY <1>2, <2>1, <2>2 DEF AwaitedInv
<1>13. CountsInv' BY <1>11, <1>12 DEF CountsInv
<1> QED BY <1>6, <1>10, <1>13 DEF BlockInv

\* What ServerReceive leaves to its three cases
Receives(d, s) ==
  /\ outbox[d] = <<>> /\ net[<<s, d>>] # <<>>
  /\ net' = [net EXCEPT ![<<s, d>>] = Tail(@)]
  /\ UNCHANGED <<waiting, hpLeft, lpLeft>>

LEMMA ServerServerRequestKeeps ==
  ASSUME BlockInv, NEW d \in ServerRanks, NEW s \in Ranks, Receives(d, s),
         ServerServerRequest(d, s, Head(net[<<s, d>>]))
  PROVE  BlockInv'
<1> DEFINE m == Head(net[<<s, d>>])
           c == m.client
           ack == Send("ACK", s, c)
<1>1. TypeInv /\ MessageInv /\ CountsInv /\ d \in Ranks BY KindsOfRank DEF BlockInv
<1>2. /\ outbox[d] = <<>> /\ net[<<s, d>>] # <<>>
      /\ net' = [net EXCEPT ![<<s, d>>] = Tail(@)]
      /\ outbox' = [outbox EXCEPT ![d] = <<ack>>]
      /\ m.kind = "SERVER REQUEST" /\ UNCHANGED <<waiting, lpLeft, replies>>
  BY DEF Receives, ServerServerRequest
<1>3. m \in SentTo(s, d) BY <1>1, <1>2, NetTail
<1> HIDE DEF m
<1>4. /\ m \in Messages /\ c \in Clients /\ m.to = d /\ s \in ServerRanks
      /\ HostOf(s) # HostOf(c)
  BY <1>2, <1>3, KindsOfRank DEF SentTo, Sent, Messages
<1>5. /\ \A k \in Clients : m \notin Token(k)[s] /\ m \notin Untaken(k)[s]
      /\ \A t \in ServerRanks, k \in Clients : m \in Awaited(t, k)[s] <=> k = c /\ t = s
  BY <1>2, <1>4 DEF Token, Untaken, Awaited
<1>6. /\ ack \in Sent(d) /\ ack \in Messages
      /\ \A k \in Clients : ack \notin Token(k)[d] /\ ack \notin Untaken(k)[d]
      /\ \A t \in ServerRanks, k \in Clients : ack \in Awaited(t, k)[d] <=> k = c /\ t = s
  BY <1>4, AckIsOf, KindsOfRank
<1> HIDE DEF ack
<1>7. <<ack>> \in Seq(Sent(d)) /\ <<ack>> \in Seq(Messages) BY <1>6
<1>8. Taken(s, d, <<ack>>) BY <1>2 DEF Taken
<1>9. /\ net' \in [Ranks \X Ranks -> Seq(Messages)]
      /\ outbox' \in [Ranks -> Seq(Messages)] /\ MessageInv'
  BY <1>1, <1>7, <1>8, TakenKeeps
<1>10. ASSUME NEW F, m \in F[s] <=> ack \in F[d] PROVE HowMany(F)' = HowMany(F)
  <2>1. TakenCount(s, d, <<ack>>, F) BY <1>1, <1>7, <1>8, TakenCounts
  <2>2. Size(<<ack>>, F[d]) = IF ack \in F[d] THEN 1 ELSE 0 BY OneSend
  <2> QED BY <1>10, <2>1, <2>2 DEF TakenCount, m
<1>11. \A k \in Clients : /\ HowMany(Token(k))' = HowMany(Token(k))
                          /\ HowMany(Untaken(k))' = HowMany(Untaken(k))
  BY <1>5, <1>6, <1>10
<1>12. \A t \in ServerRanks, k \in Clients : HowMany(Awaited(t, k))' = HowMany(Awaited(t, k))
  BY <1>5, <1>6, <1>10
<1>13. CountsInv'
  BY <1>1, <1>2, <1>11, <1>12 DEF CountsInv, TokenInv, UntakenInv, AwaitedInv
<1>14. TypeInv' BY <1>1, <1>2, <1>9 DEF TypeInv
<1> QED BY <1>9, <1>13, <1>14 DEF BlockInv

LEMMA ServerAckKeeps ==
  ASSUME BlockInv, NEW d \in ServerRanks, NEW s \in Ranks, Receives(d, s),
         ServerAck(d, Head(net[<<s, d>>]))
  PROVE  BlockInv'
<1> DEFINE m == Head(net[<<s, d>>])
           c == m.client
           ack == Send("ACK", c, c)
           last == IsHPServer(d) /\ replies[d][c] = 1
           sends == IF last THEN <<ack>> ELSE <<>>
<1>1. /\ TypeInv /\ MessageInv /\ CountsInv /\ d \in Ranks
      /\ (IsLPServer(d) <=> ~IsHPServer(d)) /\ IsServer(d) /\ d \notin Clients
  BY KindsOfRank DEF BlockInv
<1>2. /\ outbox[d] = <<>> /\ net[<<s, d>>] # <<>>
      /\ net' = [net EXCEPT ![<<s, d>>] = Tail(@)]
      /\ m.kind = "ACK" /\ UNCHANGED <<waiting, lpLeft>>
  BY DEF Receives, ServerAck
<1>3. m \in SentTo(s, d) BY <1>1, <1>2, NetTail
<1>4. ServerAck(d, m) OBVIOUS
<1> HIDE DEF m
<1>5. /\ m \in Messages /\ c \in Clients /\ m.to = d /\ s \in ServerRanks
      /\ HostOf(d) # HostOf(c)
  BY <1>1, <1>2, <1>3, KindsOfRank DEF SentTo, Sent, Messages
<1>6. /\ \A k \in Clients : m \notin Token(k)[s] /\ m \notin Untaken(k)[s]
      /\ \A t \in ServerRanks, k \in Clients : m \in Awaited(t, k)[s] <=> k = c /\ t = d
  BY <1>1, <1>2, <1>5 DEF Token, Untaken, Awaited
<1>7. /\ ack \in Sent(d) /\ ack \in Messages
      /\ \A k \in Clients : ack \in Token(k)[d] <=> k = c
      /\ \A k \in Clients : ack \notin Untaken(k)[d]
      /\ \A t \in ServerRanks, k \in Clients : ack \notin Awaited(t, k)[d]
  BY <1>5, AckIsOf, KindsOfRank
<1>8. \A t \in ServerRanks, k \in Clients : replies[t][k] \in Nat BY <1>1 DEF TypeInv
<1>9. /\ \A t \in ServerRanks, k \in Clients :
           replies'[t][k] = IF IsHPServer(d) /\ t = d /\ k = c THEN replies[t][k] - 1
                            ELSE replies[t][k]
      /\ outbox' = [outbox EXCEPT ![d] = sends]
  <2>1. CASE IsHPServer(d)
    <3>1. /\ replies' = [replies EXCEPT ![d][c] = @ - 1]
          /\ outbox' = IF replies'[d][c] = 0 THEN [outbox EXCEPT ![d] = <<ack>>] ELSE outbox
      BY <1>1, <1>4, <2>1 DEF ServerAck
    <3>2. \A t \in ServerRanks, k \in Clients :
            replies'[t][k] = IF t = d /\ k = c THEN replies[t][k] - 1 ELSE replies[t][k]
      BY <1>1, <1>5, <3>1 DEF TypeInv
    <3>3. replies'[d][c] = 0 <=> last BY <1>5, <1>8, <2>1, <3>2
    <3>4. outbox = [outbox EXCEPT ![d] = <<>>] BY <1>1, <1>2 DEF TypeInv
    <3> HIDE DEF last, ack
    <3>5. CASE last BY <2>1, <3>1, <3>2, <3>3, <3>5
    <3>6. CASE ~last
      <4>1. outbox' = outbox /\ sends = <<>> BY <3>1, <3>3, <3>6
      <4>2. outbox' = [outbox EXCEPT ![d] = sends] BY <3>4, <4>1
      <4> QED BY <2>1, <3>2, <4>2
    <3> QED BY <3>5, <3>6
  <2>2. CASE ~IsHPServer(d)
    <3>1. UNCHANGED <<outbox, replies>> /\ ~last BY <1>1, <1>4, <2>2 DEF ServerAck
    <3>2. outbox = [outbox EXCEPT ![d] = <<>>] BY <1>1, <1>2 DEF TypeInv
    <3> HIDE DEF last
    <3> QED BY <2>2, <3>1, <3>2
  <2> QED BY <2>1, <2>2
<1> HIDE DEF ack
<1>10. sends \in Seq(Sent(d)) /\ sends \in Seq(Messages) BY <1>7
<1>11. Taken(s, d, sends) BY <1>2, <1>9 DEF Taken
<1>12. /\ \A F : TakenCount(s, d, sends, F)
       /\ \A F : Size(sends, F[d]) = IF last /\ ack \in F[d] THEN 1 ELSE 0
  <2>1. \A F : TakenCount(s, d, sends, F) BY <1>1, <1>10, <1>11, TakenCounts
  <2>2. ASSUME NEW F PROVE Size(sends, F[d]) = IF last /\ ack \in F[d] THEN 1 ELSE 0
    BY NoSends, OneSend
  <2> QED BY <2>1, <2>2
<1>13. /\ net' \in [Ranks \X Ranks -> Seq(Messages)]
       /\ outbox' \in [Ranks -> Seq(Messages)] /\ MessageInv'
  BY <1>1, <1>10, <1>11, TakenKeeps
<1> HIDE DEF sends
<1>14. ASSUME NEW F
       PROVE  /\ HowMany(F) \in Nat
              /\ m \in F[s] => HowMany(F) > 0
              /\ HowMany(F)' = HowMany(F) - (IF m \in F[s] THEN 1 ELSE 0)
                                          + (IF last /\ ack \in F[d] THEN 1 ELSE 0)
  BY <1>12 DEF TakenCount, m
<1>15. AwaitedInv(d, c) /\ HowMany(Awaited(d, c)) > 0 /\ TokenInv(c)
  BY <1>1, <1>5, <1>6, <1>14 DEF CountsInv
<1>16. IsHPServer(d) => /\ replies[d][c] # 0 /\ HowMany(Token(c)) = 0 /\ c \in waiting
                        /\ \A u \in ServerRanks : u # d => replies[u][c] = 0
  <2>1. IsHPServer(d) => replies[d][c] # 0 BY <1>15 DEF AwaitedInv
  <2> QED BY <1>15, <2>1 DEF TokenInv
<1>17. TypeInv'
  <2>1. replies' \in [ServerRanks -> [Clients -> Nat]]
    <3>1. CASE IsHPServer(d)
      <4>1. replies' = [replies EXCEPT ![d][c] = @ - 1] BY <1>1, <1>4, <3>1 DEF ServerAck
      <4>2. replies[d][c] - 1 \in Nat BY <1>5, <1>8, <1>16, <3>1
      <4> QED BY <1>1, <4>1, <4>2 DEF TypeInv
    <3>2. CASE ~IsHPServer(d) BY <1>1, <1>4, <3>2 DEF ServerAck, TypeInv
    <3> QED BY <3>1, <3>2
  <2> QED BY <1>1, <1>2, <1>13, <2>1 DEF TypeInv
<1>18. ASSUME NEW k \in Clients PROVE TokenInv(k)' /\ UntakenInv(k)'
  <2>1. /\ HowMany(Token(k)) \in Nat
        /\ HowMany(Token(k))' = HowMany(Token(k)) + (IF last /\ k = c THEN 1 ELSE 0)
    BY <1>6, <1>7, <1>14
  <2>2. HowMany(Untaken(k))' = HowMany(Untaken(k)) BY <1>6, <1>7, <1>14
  <2>3. TokenInv(k) /\ UntakenInv(k) BY <1>1 DEF CountsInv
  <2>4. UntakenInv(k)' BY <1>2, <2>2, <2>3 DEF UntakenInv
  <2>5. CASE k = c /\ IsHPServer(d)
    <3>1. CASE replies[d][c] = 1
      <4>1. HowMany(Token(k))' = 1 BY <1>16, <2>1, <2>5, <3>1
      <4>2. \A t \in ServerRanks : replies'[t][k] = 0 BY <1>8, <1>9, <1>16, <2>5, <3>1
      <4> QED BY <1>2, <1>16, <2>4, <2>5, <4>1, <4>2 DEF TokenInv
    <3>2. CASE replies[d][c] # 1
      <4>1. HowMany(Token(k))' = 0 BY <1>16, <2>1, <2>5, <3>2
      <4>2. \A t \in ServerRanks : t # d => replies'[t][k] = 0 BY <1>8, <1>9, <1>16, <2>5
      <4>3. replies[d][c] <= serverNetLoad BY <1>5, <1>15, <1>16, <2>5 DEF TokenInv
      <4>4. replies'[d][k] <= serverNetLoad BY <1>5, <1>8, <1>9, <2>5, <4>3, BoundsAre
      <4> QED BY <1>2, <1>16, <2>4, <2>5, <4>1, <4>2, <4>4 DEF TokenInv
    <3> QED BY <3>1, <3>2
  <2>6. CASE ~(k = c /\ IsHPServer(d))
    <3>1. HowMany(Token(k))' = HowMany(Token(k)) BY <2>1, <2>6
    <3>2. \A t \in ServerRanks : replies'[t][k] = replies[t][k] BY <1>9, <2>6
    <3> QED BY <1>2, <2>3, <2>4, <3>1, <3>2 DEF TokenInv
  <2> QED BY <2>4, <2>5, <2>6
<1>19. ASSUME NEW t \in ServerRanks, NEW k \in Clients PROVE AwaitedInv(t, k)'
  <2>1. /\ HowMany(Awaited(t, k)) \in Nat
        /\ HowMany(Awaited(t, k))' = HowMany(Awaited(t, k)) - (IF k = c /\ t = d THEN 1 ELSE 0)
    BY <1>6, <1>7, <1>14
  <2>2. HowMany(Untaken(k))' = HowMany(Untaken(k)) /\ HowMany(Untaken(k)) \in Nat
    BY <1>6, <1>7, <1>14
  <2>3. AwaitedInv(t, k) BY <1>1 DEF CountsInv
  <2>4. CASE IsHPServer(t)
    <3>1. HowMany(Awaited(t, k)) = replies[t][k] BY <2>3, <2>4 DEF AwaitedInv
    <3>2. HowMany(Awaited(t, k))' = replies'[t][k] BY <1>8, <1>9, <2>1, <2>4, <3>1
    <3> QED BY <2>4, <3>2 DEF AwaitedInv
  <2>5. CASE ~IsHPServer(t)
    <3> DEFINE e == LPReqs - lpLeft[k] - HowMany(Untaken(k))
    <3>1. HowMany(Awaited(t, k)) <= serverNetLoad * e BY <2>3, <2>5 DEF AwaitedInv
    <3>2. e \in Int BY <1>1, <2>2, BoundsAre DEF TypeInv
    <3>3. LPReqs - lpLeft'[k] - HowMany(Untaken(k))' = e BY <1>2, <2>2
    <3> HIDE DEF e
    <3>4. PICK w \in Int : w = serverNetLoad * e BY <3>2, BoundsAre
    <3>5. HowMany(Awaited(t, k))' <= serverNetLoad * e BY <2>1, <3>1, <3>4
    <3> QED BY <2>5, <3>3, <3>5 DEF AwaitedInv
  <2> QED BY <2>4, <2>5
<1>20. CountsInv' BY <1>18, <1>19 DEF CountsInv
<1> QED BY <1>13, <1>17, <1>20 DEF BlockInv

\* The server requests that thread d creates for client c
LEMMA NetworkRequestsAre ==
  ASSUME NEW d \in ServerRanks, NEW c \in Clients, HostOf(d) # HostOf(c),
         NEW sends \in NetworkRequests(d, c)
  PROVE  /\ sends \in Seq(Sent(d)) /\ Len(sends) = serverNetLoad
         /\ \A k \in Clients : /\ Size(sends, Token(k)[d]) = 0
                               /\ Size(sends, Untaken(k)[d]) = 0
         /\ \A t \in ServerRanks, k \in Clients :
              Size(sends, Awaited(t, k)[d]) = IF t = d /\ k = c THEN serverNetLoad ELSE 0
<1> DEFINE I == 1 .. serverNetLoad
           Targets == UNION {Threads(d, h) : h \in Hosts \ {HostOf(d)}}
<1>1. PICK to \in [I -> Targets] : sends = [i \in I |-> Send("SERVER REQUEST", to[i], c)]
  BY DEF NetworkRequests
<1>2. d \in Ranks /\ IsServer(d) BY KindsOfRank
<1>3. \A q \in Targets : q \in Ranks /\ IsServer(q) /\ (IsHPServer(d) <=> IsHPServer(q))
  BY <1>2 DEF Threads, HPRanks, LPRanks, IsHPServer, IsLPServer
<1> HIDE DEF Targets
<1>4. ASSUME NEW i \in I
      PROVE  /\ sends[i] \in Sent(d) /\ sends[i] \in Messages
             /\ sends[i].kind = "SERVER REQUEST" /\ sends[i].client = c
  <2> DEFINE m == Send("SERVER REQUEST", to[i], c)
  <2>1. sends[i] = m /\ to[i] \in Targets BY <1>1
  <2>2. m.kind = "SERVER REQUEST" /\ m.to = to[i] /\ m.client = c BY DEF Send
  <2>3. to[i] \in Ranks /\ IsServer(to[i]) /\ (IsHPServer(d) <=> IsHPServer(to[i]))
    BY <1>3, <2>1
  <2>4. m \in Messages BY <2>3 DEF Send, Messages, Kinds
  <2> HIDE DEF m
  <2>5. m \in Sent(d) BY <1>2, <2>2, <2>3, <2>4 DEF Sent
  <2> QED BY <2>1, <2>2, <2>4, <2>5
<1>5. sends = [i \in I |-> sends[i]] BY <1>1
<1>6. sends \in Seq(Sent(d)) /\ Len(sends) = serverNetLoad /\ DOMAIN sends = I
  <2>1. DOMAIN sends = I /\ sends \in [I -> Sent(d)] BY <1>4, <1>5
  <2>2. sends \in Seq(Sent(d)) BY <2>1, BoundsAre, SeqDef
  <2>3. Len(sends) = serverNetLoad BY <2>1, <2>2, LenProperties, BoundsAre
  <2> QED BY <2>1, <2>2, <2>3
<1>7. ASSUME NEW k \in Clients
      PROVE  Size(sends, Token(k)[d]) = 0 /\ Size(sends, Untaken(k)[d]) = 0
  <2>1. \A i \in DOMAIN sends : sends[i] \notin Token(k)[d] /\ sends[i] \notin Untaken(k)[d]
    BY <1>2, <1>4, <1>6 DEF Token, Untaken
  <2> QED BY <2>1, MatchesNo DEF Size
<1>8. ASSUME NEW t \in ServerRanks, NEW k \in Clients
      PROVE  Size(sends, Awaited(t, k)[d]) = IF t = d /\ k = c THEN serverNetLoad ELSE 0
  <2>1. \A i \in DOMAIN sends : sends[i] \in Awaited(t, k)[d] <=> t = d /\ k = c
    BY <1>2, <1>4, <1>6 DEF Awaited
  <2>2. CASE t = d /\ k = c
    <3>1. \A i \in DOMAIN sends : sends[i] \in Awaited(t, k)[d] BY <2>1, <2>2
    <3> QED BY <1>6, <2>2, <3>1, MatchesAll DEF Size
  <2>3. CASE ~(t = d /\ k = c)
    <3>1. \A i \in DOMAIN sends : sends[i] \notin Awaited(t, k)[d] BY <2>1, <2>3
    <3> QED BY <2>3, <3>1, MatchesNo DEF Size
  <2> QED BY <2>2, <2>3
<1> QED BY <1>6, <1>7, <1>8

LEMMA ServerRequestKeeps ==
  ASSUME BlockInv, NEW d \in ServerRanks, NEW s \in Ranks, Receives(d, s),
         ServerRequest(d, s, Head(net[<<s, d>>]))
  PROVE  BlockInv'
<1> DEFINE m == Head(net[<<s, d>>])
           ack == Send("ACK", s, s)
           hp == IsHPServer(d)
           N == serverNetLoad
<1>1. /\ TypeInv /\ MessageInv /\ CountsInv /\ d \in Ranks
      /\ (IsLPServer(d) <=> ~IsHPServer(d)) /\ IsServer(d) /\ d \notin Clients
  BY KindsOfRank DEF BlockInv
<1>2. /\ outbox[d] = <<>> /\ net[<<s, d>>] # <<>>
      /\ net' = [net EXCEPT ![<<s, d>>] = Tail(@)]
      /\ m.kind = "REQUEST" /\ UNCHANGED <<waiting, lpLeft>>
      /\ replies' = [replies EXCEPT ![d][m.client] = IF hp THEN N ELSE @]
  BY DEF Receives, ServerRequest
<1>3. m \in SentTo(s, d) BY <1>1, <1>2, NetTail
<1>4. PICK asked \in NetworkRequests(d, m.client) :
        outbox' = [outbox EXCEPT ![d] =
                     IF asked = <<>> /\ hp THEN <<Send("ACK", s, m.client)>> ELSE asked]
  BY DEF ServerRequest
<1> HIDE DEF m
<1>5. m \in Messages /\ m.client = s /\ s \in Clients /\ m.to = d /\ HostOf(d) # HostOf(s)
  BY <1>2, <1>3 DEF SentTo, Sent, Messages
<1>6. /\ \A k \in Clients : m \in Token(k)[s] <=> k = s /\ hp
      /\ \A k \in Clients : m \in Untaken(k)[s] <=> k = s /\ ~hp
      /\ \A t \in ServerRanks, k \in Clients : m \notin Awaited(t, k)[s]
  BY <1>1, <1>2, <1>5 DEF Token, Untaken, Awaited
<1>7. /\ ack \in Sent(d) /\ ack \in Messages
      /\ \A k \in Clients : ack \in Token(k)[d] <=> k = s
      /\ \A k \in Clients : ack \notin Untaken(k)[d]
      /\ \A t \in ServerRanks, k \in Clients : ack \notin Awaited(t, k)[d]
  BY <1>5, AckIsOf, KindsOfRank
<1>8. /\ asked \in Seq(Sent(d)) /\ Len(asked) = N
      /\ \A k \in Clients : Size(asked, Token(k)[d]) = 0 /\ Size(asked, Untaken(k)[d]) = 0
      /\ \A t \in ServerRanks, k \in Clients :
           Size(asked, Awaited(t, k)[d]) = IF t = d /\ k = s THEN N ELSE 0
  BY <1>5, NetworkRequestsAre
<1>9. asked = <<>> <=> N = 0 BY <1>8, EmptySeq
<1> DEFINE direct == N = 0 /\ hp
           sends == IF direct THEN <<ack>> ELSE asked
<1>10. outbox' = [outbox EXCEPT ![d] = sends] BY <1>4, <1>5, <1>9
<1> HIDE DEF ack
<1>11. sends \in Seq(Sent(d)) /\ sends \in Seq(Messages) BY <1>7, <1>8, SentIsMessage
<1>12. Taken(s, d, sends) BY <1>2, <1>10 DEF Taken
<1>13. /\ net' \in [Ranks \X Ranks -> Seq(Messages)]
       /\ outbox' \in [Ranks -> Seq(Messages)] /\ MessageInv'
  BY <1>1, <1>11, <1>12, TakenKeeps
<1>14. /\ \A k \in Clients : Size(sends, Token(k)[d]) = IF direct /\ k = s THEN 1 ELSE 0
       /\ \A k \in Clients : Size(sends, Untaken(k)[d]) = 0
       /\ \A t \in ServerRanks, k \in Clients :
            Size(sends, Awaited(t, k)[d]) = IF t = d /\ k = s THEN N ELSE 0
  BY <1>7, <1>8, OneSend
<1> HIDE DEF sends
<1>15. ASSUME NEW F
       PROVE  /\ HowMany(F) \in Nat
              /\ m \in F[s] => HowMany(F) > 0
              /\ HowMany(F)' = HowMany(F) - (IF m \in F[s] THEN 1 ELSE 0) + Size(sends, F[d])
  <2>1. TakenCount(s, d, sends, F) BY <1>1, <1>11, <1>12, TakenCounts
  <2> QED BY <2>1 DEF TakenCount, m
<1>16. \A t \in ServerRanks, k \in Clients :
         replies'[t][k] = IF hp /\ t = d /\ k = s THEN N ELSE replies[t][k]
  BY <1>1, <1>2, <1>5 DEF TypeInv
<1>17. TypeInv'
  <2>1. replies' \in [ServerRanks -> [Clients -> Nat]]
    <3>1. replies[d][s] \in Nat BY <1>1, <1>5 DEF TypeInv
    <3>2. (IF hp THEN N ELSE replies[d][s]) \in Nat BY <3>1, BoundsAre
    <3> QED BY <1>1, <1>2, <1>5, <3>2 DEF TypeInv
  <2> QED BY <1>1, <1>2, <1>13, <2>1 DEF TypeInv
<1> HIDE DEF N, hp
<1>18. N \in Nat BY BoundsAre DEF N
<1>19. \A k \in Clients :
         /\ HowMany(Token(k)) \in Nat /\ HowMany(Untaken(k)) \in Nat
         /\ (k = s /\ hp => HowMany(Token(k)) > 0)
         /\ (k = s /\ ~hp => HowMany(Untaken(k)) > 0)
         /\ HowMany(Token(k))' = HowMany(Token(k)) - (IF k = s /\ hp THEN 1 ELSE 0)
                                                   + (IF direct /\ k = s THEN 1 ELSE 0)
         /\ HowMany(Untaken(k))' = HowMany(Untaken(k)) - (IF k = s /\ ~hp THEN 1 ELSE 0)
  <2> TAKE k \in Clients
  <2>1. /\ HowMany(Token(k)) \in Nat /\ (k = s /\ hp => HowMany(Token(k)) > 0)
        /\ HowMany(Token(k))' = HowMany(Token(k)) - (IF k = s /\ hp THEN 1 ELSE 0)
                                                  + (IF direct /\ k = s THEN 1 ELSE 0)
    <3> HIDE DEF direct
    <3> QED BY <1>6, <1>14, <1>15
  <2>2. /\ HowMany(Untaken(k)) \in Nat /\ (k = s /\ ~hp => HowMany(Untaken(k)) > 0)
        /\ HowMany(Untaken(k))' = HowMany(Untaken(k)) - (IF k = s /\ ~hp THEN 1 ELSE 0)
    BY <1>6, <1>14, <1>15
  <2> HIDE DEF direct
  <2> QED BY <2>1, <2>2
<1>20. \A t \in ServerRanks, k \in Clients :
         /\ HowMany(Awaited(t, k)) \in Nat
         /\ HowMany(Awaited(t, k))' = HowMany(Awaited(t, k)) + (IF t = d /\ k = s THEN N ELSE 0)
  BY <1>6, <1>14, <1>15
<1>21. hp => /\ HowMany(Token(s)) = 1 /\ s \in waiting
             /\ \A t \in ServerRanks : replies[t][s] = 0
  BY <1>1, <1>5, <1>19 DEF CountsInv, TokenInv
<1>22. ASSUME NEW k \in Clients PROVE TokenInv(k)' /\ UntakenInv(k)'
  <2>1. TokenInv(k) /\ UntakenInv(k) /\ lpLeft[k] \in Nat BY <1>1 DEF CountsInv, TypeInv
  <2>2. UntakenInv(k)'
    <3>1. HowMany(Untaken(k))' <= HowMany(Untaken(k)) /\ HowMany(Untaken(k))' \in Nat BY <1>19
    <3> QED BY <1>2, <1>19, <2>1, <3>1, BoundsAre DEF UntakenInv
  <2>3. CASE k = s /\ hp
    <3>1. \A t \in ServerRanks : replies'[t][k] = IF t = d THEN N ELSE 0
      BY <1>16, <1>21, <2>3
    <3>2. CASE N = 0
      <4>1. HowMany(Token(k))' = 1 BY <1>19, <1>21, <2>3, <3>2
      <4>2. \A t \in ServerRanks : replies'[t][k] = 0 BY <3>1, <3>2
      <4> QED BY <1>2, <1>21, <2>2, <2>3, <4>1, <4>2 DEF TokenInv
    <3>3. CASE N # 0
      <4>1. HowMany(Token(k))' = 0 BY <1>19, <1>21, <2>3, <3>3
      <4>2. replies'[d][k] <= serverNetLoad BY <1>18, <3>1 DEF N
      <4>3. \A t \in ServerRanks : t # d => replies'[t][k] = 0 BY <3>1
      <4> QED BY <1>2, <1>21, <2>2, <2>3, <4>1, <4>2, <4>3 DEF TokenInv
    <3> QED BY <3>2, <3>3
  <2>4. CASE ~(k = s /\ hp)
    <3>1. HowMany(Token(k))' = HowMany(Token(k)) BY <1>19, <2>4
    <3>2. \A t \in ServerRanks : replies'[t][k] = replies[t][k] BY <1>16, <2>4
    <3> QED BY <1>2, <2>1, <2>2, <3>1, <3>2 DEF TokenInv
  <2> QED BY <2>3, <2>4
<1>23. ASSUME NEW t \in ServerRanks, NEW k \in Clients PROVE AwaitedInv(t, k)'
  <2>1. AwaitedInv(t, k) BY <1>1 DEF CountsInv
  <2>2. CASE IsHPServer(t)
    <3>1. HowMany(Awaited(t, k)) = replies[t][k] BY <2>1, <2>2 DEF AwaitedInv
    <3>2. HowMany(Awaited(t, k))' = replies'[t][k]
      <4>1. CASE t = d /\ k = s
        <5>1. hp BY <2>2, <4>1 DEF hp
        <5>2. HowMany(Awaited(t, k)) = 0 BY <1>21, <3>1, <4>1, <5>1
        <5> QED BY <1>16, <1>18, <1>20, <4>1, <5>1, <5>2
      <4>2. CASE ~(t = d /\ k = s) BY <1>16, <1>20, <3>1, <4>2
      <4> QED BY <4>1, <4>2
    <3> QED BY <2>2, <3>2 DEF AwaitedInv
  <2>3. CASE ~IsHPServer(t)
    <3> DEFINE e == LPReqs - lpLeft[k] - HowMany(Untaken(k))
               one == IF k = s /\ ~hp THEN 1 ELSE 0
    <3>1. HowMany(Awaited(t, k)) <= N * e BY <2>1, <2>3 DEF AwaitedInv, N
    <3>2. e \in Int BY <1>1, <1>19, BoundsAre DEF TypeInv
    <3>3. LPReqs - lpLeft'[k] - HowMany(Untaken(k))' = e + one
      <4>1. lpLeft[k] \in Int /\ lpLeft' = lpLeft BY <1>1, <1>2 DEF TypeInv
      <4> QED BY <1>19, <4>1, BoundsAre
    <3>4. one \in {0, 1} /\ (t = d /\ k = s => one = 1) BY <2>3 DEF hp
    <3> HIDE DEF e, one
    <3>5. N * (e + one) = N * e + N * one BY <1>18, <3>2, <3>4
    <3>6. HowMany(Awaited(t, k))' <= N * (e + one)
      <4>1. PICK w \in Int : w = N * e BY <1>18, <3>2
      <4>2. N * one = IF one = 1 THEN N ELSE 0 BY <1>18, <3>4
      <4> QED BY <1>18, <1>20, <3>1, <3>4, <3>5, <4>1, <4>2
    <3> QED BY <2>3, <3>3, <3>6 DEF AwaitedInv, N
  <2> QED BY <2>2, <2>3
<1>24. CountsInv' BY <1>22, <1>23 DEF CountsInv
<1> QED BY <1>13, <1>17, <1>24 DEF BlockInv

LEMMA NextKeeps ==
  ASSUME BlockInv, [Next]_vars
  PROVE  BlockInv'
<1>1. CASE UNCHANGED vars BY <1>1, StutterKeeps
<1>2. ASSUME NEW p \in Ranks, SendReturns(p) PROVE BlockInv' BY <1>2, SendReturnsKeeps
<1>3. ASSUME NEW c \in Clients, ClientLPReq(c) PROVE BlockInv' BY <1>3, ClientLPReqKeeps
<1>4. ASSUME NEW c \in Clients, ClientHPReq(c) PROVE BlockInv' BY <1>4, ClientHPReqKeeps
<1>5. ASSUME NEW c \in Clients, NEW s \in ServerRanks, ClientReply(c, s) PROVE BlockInv'
  BY <1>5, ClientReplyKeeps
<1>6. ASSUME NEW d \in ServerRanks, NEW s \in Ranks, ServerReceive(d, s) PROVE BlockInv'
  <2> DEFINE m == Head(net[<<s, d>>])
  <2>1. Receives(d, s) BY <1>6 DEF ServerReceive, Receives
  <2>2. ServerRequest(d, s, m) \/ ServerServerRequest(d, s, m) \/ ServerAck(d, m)
    BY <1>6 DEF ServerReceive
  <2>3. CASE ServerRequest(d, s, m) BY <2>1, <2>3, ServerRequestKeeps
  <2>4. CASE ServerServerRequest(d, s, m) BY <2>1, <2>4, ServerServerRequestKeeps
  <2>5. CASE ServerAck(d, m) BY <2>1, <2>5, ServerAckKeeps
  <2> QED BY <2>2, <2>3, <2>4, <2>5
<1> QED BY <1>1, <1>2, <1>3, <1>4, <1>5, <1>6 DEF Next

\* The counts behind the theorem: the messages under way that a thread waits for are
\* those its counter of the request says (src/server.c:147-148, 206-207).
LEMMA BlockInvariant == Spec => []BlockInv
BY InitKeeps, NextKeeps, PTL DEF Spec

\* Server threads never wait in MPI_Send for one another, however many hosts and
\* threads there are, when MPI has room for what one of them can wait for
\* (src/server.c:241-245).  For low priority threads that takes a bound on the low
\* priority requests of a client, which the program does not have.
THEOREM NoThreadsInACircle ==
  ASSUME NEW T \in SUBSET ServerRanks, EnoughRoom(T)
  PROVE  Spec => [](\A S \in SUBSET T : ~Circle(S))
<1>1. BlockInv => \A S \in SUBSET T : ~Circle(S) BY NoCircle DEF EnoughRoom
<1> QED BY <1>1, BlockInvariant, PTL

\* High priority threads never do when there is room for the network load of one request
\* of each client of the other hosts, whatever number of low priority requests there are
\* (src/client.c:143-157, src/server.c:241-245).
THEOREM NoHPThreadsInACircle ==
  ASSUME \A t \in HPThreads : Cardinality(Meets(t)) * serverNetLoad <= Capacity
  PROVE  Spec => []NoCircularWait
<1>1. EnoughRoom(HPThreads) BY DEF EnoughRoom, Most, HPThreads
<1>2. HPThreads \in SUBSET ServerRanks BY DEF HPThreads
<1>3. Spec => [](\A S \in SUBSET HPThreads : ~Circle(S)) BY <1>1, <1>2, NoThreadsInACircle
<1>4. (\A S \in SUBSET HPThreads : ~Circle(S)) => NoCircularWait BY DEF NoCircularWait
<1> QED BY <1>3, <1>4, PTL
==============================================================================
