------------------------------ MODULE HPService ------------------------------
(***************************************************************************)
(* What the simulator promises a high priority client, without messages:   *)
(* it submits one request at a time to one server thread, the thread takes *)
(* it into one of its Slots, and the same thread gives exactly one answer. *)
(* A request whose thread has no other server to ask is answered at once,  *)
(* without a slot.                                                         *)
(***************************************************************************)
EXTENDS Naturals, FiniteSets

CONSTANTS Clients, Threads, NoThread, NumSlots

VARIABLES phase,    \* [Clients -> {"idle", "submitted", "serving", "answered"}]
          thread    \* the thread that has the request, NoThread when idle

vars == <<phase, thread>>

ServedBy(t) == {c \in Clients : phase[c] = "serving" /\ thread[c] = t}

Init == /\ phase = [c \in Clients |-> "idle"]
        /\ thread = [c \in Clients |-> NoThread]

Submit(c) == /\ phase[c] = "idle"
             /\ phase' = [phase EXCEPT ![c] = "submitted"]
             /\ \E t \in Threads : thread' = [thread EXCEPT ![c] = t]

Serve(c) == /\ phase[c] = "submitted"
            /\ Cardinality(ServedBy(thread[c])) < NumSlots
            /\ phase' = [phase EXCEPT ![c] = "serving"]
            /\ UNCHANGED thread

Answer(c) == /\ phase[c] \in {"submitted", "serving"}
             /\ phase' = [phase EXCEPT ![c] = "answered"]
             /\ UNCHANGED thread

Collect(c) == /\ phase[c] = "answered"
              /\ phase' = [phase EXCEPT ![c] = "idle"]
              /\ thread' = [thread EXCEPT ![c] = NoThread]

Progress(c) == Serve(c) \/ Answer(c) \/ Collect(c)

Next == \E c \in Clients : Submit(c) \/ Progress(c)

\* A client may stop asking; a request that was submitted is answered
Spec == Init /\ [][Next]_vars /\ \A c \in Clients : WF_vars(Progress(c))
==============================================================================
