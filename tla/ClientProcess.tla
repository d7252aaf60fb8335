----------------------------- MODULE ClientProcess -----------------------------
(***************************************************************************)
(* One client process from its start to its end: the signal handler, the   *)
(* pacing of its requests by the clock, the latency it measures, and its   *)
(* last report (src/client.c:27-240 and 327-401).  QosSim has what it      *)
(* exchanges with the servers; here a reply just arrives.                  *)
(*                                                                         *)
(* The clock may advance between any two steps.  hpTime and lpTime are the *)
(* clock readings lastHPReqTime and lastLPReqTime were set to.             *)
(***************************************************************************)
EXTENDS TimeArithmetic

CONSTANTS HPRates, LPRates,      \* clientHPReqRate, clientLPReqRate
          NUM_WARMUP_SAMPLES,
          MaxTime                \* bound: the last instant of the clock

ASSUME ClientAssumption ==
  /\ HPRates \subseteq Nat /\ LPRates \subseteq Nat
  /\ NUM_WARMUP_SAMPLES \in Nat /\ MaxTime \in Nat

VARIABLES now,                   \* CLOCK_PROCESS_CPUTIME_ID
          pc, client_keepRunning,
          signal,                \* "none", or when SIGUSR1 came: "unhandled", "early", "caught"
          clientHPReqRate, clientLPReqRate,
          lastHPReqTime, lastLPReqTime, hpTime, lpTime,
          warmupCount,
          sample,                \* the last latency recorded, and the true one
          clientLog              \* "none", "begun", "partial", "complete"

args   == <<clientHPReqRate, clientLPReqRate>>
lpVars == <<lastLPReqTime, lpTime>>
hpVars == <<lastHPReqTime, hpTime>>
vars   == <<now, pc, client_keepRunning, signal, args, lpVars, hpVars, warmupCount, sample, clientLog>>

Clock == Timespec(now)

Init ==
  /\ now \in 0 .. 1 /\ pc = "exec" /\ client_keepRunning = FALSE /\ signal = "none"
  /\ clientHPReqRate \in HPRates /\ clientLPReqRate \in LPRates
  /\ lastHPReqTime = Timespec(0) /\ lastLPReqTime = Timespec(0) /\ hpTime = 0 /\ lpTime = 0
  /\ warmupCount = 0 /\ sample = [recorded |-> 0, elapsed |-> 0]
  /\ clientLog = "none"

Goto(from, to) == pc = from /\ pc' = to

\* lastPKtSendTime < now - ipg, by two subtractions; not before the clock has reached ipg
client_shouldSend(rate, lastPKtSendTime) ==
  /\ rate # 0
  /\ LET ipg == compute_ipg(rate) IN
       /\ ~IsNegative(Clock, ipg)
       /\ IsNegative(lastPKtSendTime, Difference(Clock, ipg))

\* runClient: the handler, the logs and the start times, then client_runThread
InstallHandler ==
  Goto("exec", "setup") /\ UNCHANGED <<client_keepRunning, lpVars, hpVars, warmupCount, sample, clientLog>>

Setup ==
  /\ Goto("setup", "begin")
  /\ clientLog' = "begun"
  /\ lastHPReqTime' = Clock /\ hpTime' = now
  /\ lastLPReqTime' = Clock /\ lpTime' = now
  /\ UNCHANGED <<client_keepRunning, warmupCount, sample>>

BeginLoop ==
  /\ Goto("begin", "top")
  /\ client_keepRunning' = TRUE
  /\ UNCHANGED <<lpVars, hpVars, warmupCount, sample, clientLog>>

\* Mutant of Loop: the flag is set for every turn
LoopSetsFlag ==
  /\ Goto("top", "LP")
  /\ client_keepRunning' = TRUE
  /\ UNCHANGED <<lpVars, hpVars, warmupCount, sample, clientLog>>

Loop ==
  /\ Goto("top", IF client_keepRunning THEN "LP" ELSE "stopped")
  /\ UNCHANGED <<client_keepRunning, lpVars, hpVars, warmupCount, sample, clientLog>>

CheckSendLP ==
  /\ Goto("LP", IF client_shouldSend(clientLPReqRate, lastLPReqTime) THEN "LP sent" ELSE "HP")
  /\ UNCHANGED <<client_keepRunning, lpVars, hpVars, warmupCount, sample, clientLog>>

ResetLP ==
  /\ Goto("LP sent", "HP")
  /\ lastLPReqTime' = Clock /\ lpTime' = now
  /\ UNCHANGED <<client_keepRunning, hpVars, warmupCount, sample, clientLog>>

CheckSendHP ==
  /\ Goto("HP", IF client_shouldSend(clientHPReqRate, lastHPReqTime) THEN "HP sent" ELSE "top")
  /\ UNCHANGED <<client_keepRunning, lpVars, hpVars, warmupCount, sample, clientLog>>

ResetHP ==
  /\ Goto("HP sent", "wait")
  /\ lastHPReqTime' = Clock /\ hpTime' = now
  /\ UNCHANGED <<client_keepRunning, lpVars, warmupCount, sample, clientLog>>

\* Mutant of client_updateStats: it leaves the operands exchanged
client_updateStatsExchanged ==
  /\ lastHPReqTime' = Carried(lastHPReqTime, Clock)
  /\ sample' = [recorded |-> Value(Difference(lastHPReqTime, Clock)), elapsed |-> now - hpTime]

\* The latency, computed as a long double, may lose a nanosecond when it is cast;
\* the subtraction leaves its carry in lastHPReqTime
client_updateStats ==
  /\ lastHPReqTime' = Carried(Clock, lastHPReqTime)
  /\ LET latency == Difference(Clock, lastHPReqTime) IN
       \E lost \in IF latency.nsec = 0 THEN {0} ELSE {0, 1} :
         sample' = [recorded |-> Value(latency) - lost, elapsed |-> now - hpTime]

\* client_waitHPReply; the first replies are not measured
WaitHPReply ==
  /\ Goto("wait", "top")
  /\ warmupCount' = warmupCount + 1
  /\ IF warmupCount' > NUM_WARMUP_SAMPLES THEN client_updateStats
     ELSE UNCHANGED <<lastHPReqTime, sample>>
  /\ UNCHANGED <<client_keepRunning, lpVars, hpTime, clientLog>>

\* client_reportFinalStats: the histogram's file, then the log, then both are closed
PrintHistogram ==
  /\ Goto("stopped", "printed")
  /\ clientLog' = "partial"
  /\ UNCHANGED <<client_keepRunning, lpVars, hpVars, warmupCount, sample>>

ReportFinalStats ==
  /\ Goto("printed", "reported")
  /\ clientLog' = "complete"
  /\ UNCHANGED <<client_keepRunning, lpVars, hpVars, warmupCount, sample>>

\* The statements of the process
Step == /\ \/ InstallHandler \/ Setup \/ BeginLoop \/ Loop
           \/ CheckSendLP \/ ResetLP \/ CheckSendHP \/ ResetHP \/ WaitHPReply
           \/ PrintHistogram \/ ReportFinalStats
        /\ UNCHANGED <<now, signal, args>>

\* The launcher sends SIGUSR1 once; without the handler it ends the process
Signal ==
  /\ signal = "none"
  /\ IF pc = "exec"
     THEN signal' = "unhandled" /\ pc' = "dead" /\ UNCHANGED client_keepRunning
     ELSE /\ signal' = IF pc \in {"setup", "begin"} THEN "early" ELSE "caught"
          /\ client_keepRunning' = FALSE /\ UNCHANGED pc
  /\ UNCHANGED <<now, args, lpVars, hpVars, warmupCount, sample, clientLog>>

\* Some time later it kills what still runs, a client that missed the signal too
Kill ==
  /\ signal # "none" /\ pc # "dead" /\ pc' = "dead"
  /\ UNCHANGED <<now, client_keepRunning, signal, args, lpVars, hpVars, warmupCount, sample, clientLog>>

Tick ==
  /\ now < MaxTime /\ pc # "dead"
  /\ now' = now + 1
  /\ UNCHANGED <<pc, client_keepRunning, signal, args, lpVars, hpVars, warmupCount, sample, clientLog>>

Next == Step \/ Signal \/ Kill \/ Tick

\* The process runs, and its requests are answered (EveryRequestAnswered of QosSim)
Spec == Init /\ [][Next]_vars /\ WF_vars(Step)

(***************************************************************************)
(* Properties                                                              *)
(***************************************************************************)

\* A request is due once more than the gap of its rate has passed since the last one and
\* the clock has reached the gap, and never before the gap has passed, although the
\* subtractions of client_shouldSend and client_updateStats carry into each other's
\* operands (src/client.c:186-235).  At the gap itself it depends on the carry that
\* client_updateStats left: timespec_subtract takes a difference of zero for negative
\* when the nanoseconds are a whole second apart.
PacedBy(rate, lastTime, lastPKtSendTime) ==
  LET due == client_shouldSend(rate, lastPKtSendTime) IN
  /\ rate # 0 /\ now >= Gap(rate) /\ lastTime < now - Gap(rate) => due
  /\ due => rate # 0 /\ now >= Gap(rate) /\ lastTime <= now - Gap(rate)

PacingExact ==
  /\ PacedBy(clientHPReqRate, hpTime, lastHPReqTime)
  /\ PacedBy(clientLPReqRate, lpTime, lastLPReqTime)

\* A latency is the time from the end of the send to the reply, to a nanosecond
\* (src/client.c:149-161, 186-209).
LatencyTrue == sample.elapsed - sample.recorded \in {0, 1}

\* A start time serves several measurements, each of which leaves its carry in it, as
\* those of a server's continuation and of the compute load do: after two more, at any
\* instants since, the third is exact and not taken for negative (src/server.c:189-203,
\* src/common.c:265-292).
RepeatedMeasuresExact ==
  \A t \in hpTime .. now : \A u \in t .. now :
    LET start == Carried(Timespec(u), Carried(Timespec(t), lastHPReqTime))
    IN Value(Difference(Clock, start)) = now - hpTime /\ ~IsNegative(Clock, start)

\* "The MPI processes will catch the SIGUSR1 signal and dump their statistics"
\* (README:86-87): a client whose loop the signal finds writes its log, whatever it
\* was waiting for, unless it is killed first.
SignalEndsClient == signal = "caught" ~> clientLog = "complete" \/ pc = "dead"
==============================================================================
