------------------------------- MODULE MCQosSim -------------------------------
(***************************************************************************)
(* Values of the constants of QosSim that a cfg file cannot write.         *)
(***************************************************************************)
EXTENDS QosSim

\* What Linux gives for an array of this size (fresh zero pages) ...
ZeroPages == {[replyCount |-> 0, numRepliesNeeded |-> 0, originClientRank |-> 0]}

\* ... and what it may be elsewhere: here, one reply short of complete
AnyContents == ZeroPages \union
               {[replyCount |-> 0, numRepliesNeeded |-> 1, originClientRank |-> 0]}

NoClients    == {}
AllClients   == Clients

\* Network load: of all threads, or none on the first host
LoadOne      == [s \in ServerRanks |-> 1]
LoadTwo      == [s \in ServerRanks |-> 2]
LoadElsewhere == [s \in ServerRanks |-> IF HostOf(s) = 0 THEN 0 ELSE 2]

\* Requests per client: of all clients, or of those on the first hosts only
None         == [c \in Clients |-> 0]
TwoEach      == [c \in Clients |-> 2]
FirstOne     == [c \in Clients |-> IF HostOf(c) = 0 THEN 1 ELSE 0]
FirstTwo     == [c \in Clients |-> IF HostOf(c) = 0 THEN 2 ELSE 0]
TwoAndOne    == [c \in Clients |-> IF HostOf(c) = 0 THEN 2 ELSE IF c = procsPerHost THEN 1 ELSE 0]
FourAndOne   == [c \in Clients |-> IF c = 0 THEN 2 ELSE IF c <= procsPerHost THEN 1 ELSE 0]
==============================================================================
